---- MODULE Spec2Model ----
(***************************************************************************)
(* Model of the pathfinding core of ACROSS: Pathfinder (src/pathfind.rs)   *)
(* and Web (src/path.rs), with the weight closures of src/main.rs.         *)
(*                                                                         *)
(* f32 scalars are fixed-point integers with Scale units per 1.0.          *)
(* Option<T> is None == -1 for costs and indices; the cached best route,   *)
(* which is never empty when present, is NoRoute == <<>> when absent.      *)
(* Node indices are 0-based as in the source; nodes is a function over     *)
(* 0..n-1.  A route is kept as the sequence of node indices whose Node     *)
(* snapshots the source clones; best_route() maps them to positions.       *)
(*                                                                         *)
(* Route (src/path.rs) and the collision functions (src/collisions.rs) are *)
(* computed over exact fractions with the non-finite values of f32, each   *)
(* under a specification of its own: SpecRoute, SpecGeom, SpecLines,       *)
(* SpecSector, and SpecAngle for the angles of src/tower.rs.  SpecGame     *)
(* runs the Web together with the enemies and towers of the game           *)
(* (src/main.rs, src/rounds.rs); SpecSearch runs repeated searches of one  *)
(* Pathfinder.  SpecRound plays the rounds of the game from               *)
(* GameState::new (src/main.rs, src/rounds.rs, src/enemy.rs,               *)
(* src/bullet.rs, src/tower.rs), SpecUpdate applies one update to a game   *)
(* in the middle of a round, and SpecDrag gives input events to the menu   *)
(* of drag buttons (src/ui.rs).  A specification holds the variables it    *)
(* does not use at fixed values.                                           *)
(***************************************************************************)
EXTENDS Integers, Sequences, FiniteSets, TLC

VARIABLES positions, conns_in, start, end,
          nodes, connections, best_route,
          open, closed, pc, result, lastCall,
          prevRoute, prevConnections,
          r_positions, r_route, r_progress, r_position, r_pc,
          circle, line, collision, segment2, sector, angles,
          enemies, towers, money, released,
          round, lives, score, mode, updated, spawned,
          drag_start, event

\* Web and Pathfinder
pathVars == <<positions, conns_in, start, end, nodes, connections, best_route,
              open, closed, pc, result, lastCall, prevRoute, prevConnections>>

\* a Route under construction and query (path.rs)
routeVars == <<r_positions, r_route, r_progress, r_position, r_pc>>

\* one call of a collision function (collisions.rs)
geomVars == <<circle, line, collision, segment2, sector, angles>>

\* GameState and MainState::update (main.rs, rounds.rs); towers is the number
\* of towers where only the web feels them and the list of towers where
\* they shoot
roundVars == <<round, lives, score, mode, updated, spawned>>

\* the drag buttons of the menu (ui.rs) and the last event given to it
dragVars == <<drag_start, event>>

\* the enemies, towers and money of GameState (main.rs, rounds.rs)
gameVars == <<enemies, towers, money, released, roundVars, dragVars>>

\* what the game on the web leaves alone
notGame == <<routeVars, geomVars, roundVars, dragVars>>

notPath == <<routeVars, geomVars, gameVars>>

vars == <<pathVars, routeVars, geomVars, gameVars>>

\* the parts of the state a specification does not use
PathOff ==
    /\ positions = <<>> /\ conns_in = <<>> /\ start = 0 /\ end = 0
    /\ nodes = <<>> /\ connections = <<>> /\ best_route = <<>>
    /\ open = <<>> /\ closed = <<>> /\ pc = "off" /\ result = "none"
    /\ lastCall = "none" /\ prevRoute = <<>> /\ prevConnections = <<>>

RouteOff ==
    /\ r_positions = <<>> /\ r_route = <<>> /\ r_progress = 0
    /\ r_position = <<>> /\ r_pc = "off"

GeomOff ==
    /\ circle = <<>> /\ line = <<>> /\ collision = <<>>
    /\ segment2 = <<>> /\ sector = <<>> /\ angles = <<>>

RoundOff ==
    /\ round = <<>> /\ lives = 0 /\ score = 0 /\ mode = "off"
    /\ updated = <<>> /\ spawned = 0

DragOff == drag_start = <<>> /\ event = <<>>

GameOff ==
    /\ enemies = <<>> /\ towers = 0 /\ money = 0 /\ released = <<>>
    /\ RoundOff /\ DragOff

\* ------------------------------------------------------------------ bounds
MaxNodes == 4
MaxConns == 5
MaxTowers == 2
Scale == 100
TowerRange == 2

ObstructionFactor == 5

None == -1
NoRoute == <<>>

\* ------------------------------------------------------------ vector.rs
Vec(x, y) == [x |-> x, y |-> y]

VSub(a, b) == [x |-> a.x - b.x, y |-> a.y - b.y]

RECURSIVE ISqrt(_)
ISqrt(n) ==
    IF n < 2 THEN n
    ELSE LET s == 2 * ISqrt(n \div 4)
             l == s + 1
         IN  IF l * l > n THEN s ELSE l

\* Vector::length, in fixed point
Length(v) == ISqrt(Scale * Scale * (v.x * v.x + v.y * v.y))

\* ------------------------------------------------------------ the inputs
\* Waypoints: the 4-node square of the scenario, then two further points.
Points ==
    << Vec(0, 0), Vec(10, 0), Vec(10, 10), Vec(0, 10), Vec(14, 5), Vec(-4, 5) >>

\* Candidate connections; an input takes any sub-list of the first MaxConns.
CandConns ==
    << <<0, 2>>, <<0, 3>>, <<3, 2>>, <<2, 1>>, <<0, 1>>, <<1, 0>>, <<1, 2>>,
       <<0, 1>>, <<1, 1>>, <<2, 3>>, <<3, 0>> >>

\* The square connected as a cycle, both ways round.
SquareCycle ==
    << <<0, 1>>, <<1, 2>>, <<2, 3>>, <<3, 0>>,
       <<1, 0>>, <<2, 1>>, <<3, 2>>, <<0, 3>> >>

RECURSIVE SubList(_, _, _)
SubList(s, mask, i) ==
    IF i > Len(s) THEN <<>>
    ELSE (IF i \in mask THEN <<s[i]>> ELSE <<>>) \o SubList(s, mask, i + 1)

\* A list with a repeated pair, a self-loop and an edge back to node 0.
Repeated ==
    << <<0, 1>>, <<1, 1>>, <<0, 1>>, <<1, 2>>, <<2, 0>>, <<1, 0>> >>

ConnInputs ==
    { SubList(CandConns, m, 1) : m \in SUBSET (1..MaxConns) }
        \cup { SquareCycle, Repeated }

\* Towers stand on waypoints; the k-th weight closure sees the first k.
TowerSites == << 2, 3, 1, 0, 4, 5 >>

TowerPos(t) == Points[TowerSites[t] + 1]

\* Tower::visible_area for a circular range of radius TowerRange centred on
\* a waypoint: the part of segment a-b inside the range.
VisibleArea(t, a, b) ==
    IF a # b /\ (a = TowerPos(t) \/ b = TowerPos(t)) THEN TowerRange * Scale ELSE 0

RECURSIVE SumVisible(_, _, _)
SumVisible(k, a, b) ==
    IF k = 0 THEN 0 ELSE VisibleArea(k, a, b) + SumVisible(k - 1, a, b)

\* The weight closures: k = 0 is GameState::new's |a, b| (a - b).length(),
\* k > 0 is tower_button's closure with k towers placed.
WeightFn(k, a, b) == Length(VSub(a, b)) + SumVisible(k, a, b) * ObstructionFactor

\* ---------------------------------------------------------- pathfind.rs
NodeNew(position) ==
    [position |-> position, g_cost |-> 0, h_cost |-> None, parent |-> None]

\* Node::h_cost_calculate: the node with its h_cost memoised
HCostCalculate(node, target) ==
    IF node.h_cost # None THEN node
    ELSE [node EXCEPT !.h_cost = Length(VSub(target.position, node.position))]

\* Node::f_cost (every node of the open list has both costs)
FCost(node) == node.g_cost + node.h_cost

\* first connection start -> end_ of the list, as Iterator::find
RECURSIVE FindConnection(_, _, _, _)
FindConnection(cs, a, b, i) ==
    IF i > Len(cs) THEN None
    ELSE IF cs[i].start = a /\ cs[i].end = b THEN i
    ELSE FindConnection(cs, a, b, i + 1)

\* Node::set_g_cost
SetGCost(node, parent, parent_index, this_index, cs) ==
    [node EXCEPT !.parent = parent_index,
                 !.g_cost = parent.g_cost
                            + cs[FindConnection(cs, parent_index, this_index, 1)].weight]

InRangeConns(n, cs) ==
    \A i \in 1..Len(cs) : cs[i][1] < n /\ cs[i][2] < n

\* the loop of Pathfinder::new pushing every connection, without the
\* already-present test
RECURSIVE FinalConnectionsNoTest(_, _, _, _, _)
FinalConnectionsNoTest(pos, cs, k, i, acc) ==
    IF i > Len(cs) THEN acc
    ELSE FinalConnectionsNoTest(pos, cs, k, i + 1,
             Append(acc, [start |-> cs[i][1], end |-> cs[i][2],
                          weight |-> WeightFn(k, pos[cs[i][1] + 1],
                                                 pos[cs[i][2] + 1])]))

\* the de-duplicating loop of Pathfinder::new
RECURSIVE FinalConnections(_, _, _, _, _)
FinalConnections(pos, cs, k, i, acc) ==
    IF i > Len(cs) THEN acc
    ELSE IF \E j \in 1..Len(acc) : acc[j].start = cs[i][1] /\ acc[j].end = cs[i][2]
         THEN FinalConnections(pos, cs, k, i + 1, acc)
         ELSE FinalConnections(pos, cs, k, i + 1,
                  Append(acc, [start |-> cs[i][1], end |-> cs[i][2],
                               weight |-> WeightFn(k, pos[cs[i][1] + 1],
                                                      pos[cs[i][2] + 1])]))

\* Pathfinder::new without its nodes.len() == 0 test
PathfinderNewNoEmptyTest(pos, cs, k) ==
    IF ~InRangeConns(Len(pos), cs)
    THEN [some |-> FALSE]
    ELSE [some |-> TRUE,
          nodes |-> [i \in 0..(Len(pos) - 1) |-> NodeNew(pos[i + 1])],
          connections |-> FinalConnections(pos, cs, k, 1, <<>>),
          best_route |-> NoRoute]

\* Pathfinder::new
PathfinderNew(pos, cs, k) ==
    IF Len(pos) = 0 \/ ~InRangeConns(Len(pos), cs)
    THEN [some |-> FALSE]
    ELSE [some |-> TRUE,
          nodes |-> [i \in 0..(Len(pos) - 1) |-> NodeNew(pos[i + 1])],
          connections |-> FinalConnections(pos, cs, k, 1, <<>>),
          best_route |-> NoRoute]

\* recalculate_weights iterating over connections.iter_mut().skip(1)
RecalculatedWeightsSkippingFirst(ns, cs, k) ==
    [i \in 1..Len(cs) |->
        IF i = 1 THEN cs[i]
        ELSE [cs[i] EXCEPT !.weight = WeightFn(k, ns[cs[i].start].position,
                                                  ns[cs[i].end].position)]]

\* Pathfinder::recalculate_weights, the connection loop
RecalculatedWeights(ns, cs, k) ==
    [i \in 1..Len(cs) |->
        [cs[i] EXCEPT !.weight = WeightFn(k, ns[cs[i].start].position,
                                             ns[cs[i].end].position)]]

\* Pathfinder::neighbours
RECURSIVE Neighbours(_, _, _)
Neighbours(cs, node_index, i) ==
    IF i > Len(cs) THEN <<>>
    ELSE (IF cs[i].start = node_index THEN <<cs[i].end>> ELSE <<>>)
         \o Neighbours(cs, node_index, i + 1)

Contains(s, x) == \E i \in 1..Len(s) : s[i] = x

\* the fold of pathfind: position in open of the node to expand
RECURSIVE CurrentIndex(_, _, _, _)
CurrentIndex(ns, op, i, acc) ==
    IF i > Len(op) THEN acc
    ELSE IF acc # None /\ FCost(ns[op[acc]]) < FCost(ns[op[i]])
         THEN CurrentIndex(ns, op, i + 1, acc)
         ELSE CurrentIndex(ns, op, i + 1, i)

RemoveAt(s, i) == SubSeq(s, 1, i - 1) \o SubSeq(s, i + 1, Len(s))

\* the condition without `|| !neighbour_in_open`
ShouldRelaxNoOpenTest(current_node, neighbour_node, neighbour_in_open) ==
    LET new_path_g_cost ==
            current_node.g_cost
            + Length(VSub(current_node.position, neighbour_node.position))
    IN  \/ neighbour_node.g_cost = None
        \/ neighbour_node.g_cost > new_path_g_cost

\* the condition without the comparison of costs
ShouldRelaxAlways(current_node, neighbour_node, neighbour_in_open) == TRUE

\* the condition under which pathfind re-parents a neighbour
ShouldRelax(current_node, neighbour_node, neighbour_in_open) ==
    LET new_path_g_cost ==
            current_node.g_cost
            + Length(VSub(current_node.position, neighbour_node.position))
    IN  \/ neighbour_node.g_cost = None
        \/ neighbour_node.g_cost > new_path_g_cost
        \/ ~neighbour_in_open

\* the neighbour loop without the test `!closed.contains(&neighbour)`
RECURSIVE RelaxNoClosedTest(_, _, _, _, _, _, _)
RelaxNoClosedTest(ns, op, cl, cs, current, target, nbs) ==
    IF nbs = <<>> THEN [nodes |-> ns, open |-> op]
    ELSE LET neighbour == Head(nbs)
             neighbour_in_open == Contains(op, neighbour)
         IN  IF ShouldRelax(ns[current], ns[neighbour], neighbour_in_open)
             THEN LET set == SetGCost(ns[neighbour], ns[current], current,
                                      neighbour, cs)
                  IN  IF neighbour_in_open
                      THEN RelaxNoClosedTest([ns EXCEPT ![neighbour] = set], op,
                                             cl, cs, current, target, Tail(nbs))
                      ELSE RelaxNoClosedTest(
                               [ns EXCEPT ![neighbour] = HCostCalculate(set, target)],
                               Append(op, neighbour), cl, cs,
                               current, target, Tail(nbs))
             ELSE RelaxNoClosedTest(ns, op, cl, cs, current, target, Tail(nbs))

\* the neighbour loop of pathfind: the nodes and the open list after it
RECURSIVE Relax(_, _, _, _, _, _, _)
Relax(ns, op, cl, cs, current, target, nbs) ==
    IF nbs = <<>> THEN [nodes |-> ns, open |-> op]
    ELSE LET neighbour == Head(nbs)
             neighbour_in_open == Contains(op, neighbour)
         IN  IF ~Contains(cl, neighbour)
                /\ ShouldRelax(ns[current], ns[neighbour], neighbour_in_open)
             THEN LET set == SetGCost(ns[neighbour], ns[current], current,
                                      neighbour, cs)
                  IN  IF neighbour_in_open
                      THEN Relax([ns EXCEPT ![neighbour] = set], op, cl, cs,
                                 current, target, Tail(nbs))
                      ELSE Relax([ns EXCEPT ![neighbour] = HCostCalculate(set, target)],
                                 Append(op, neighbour), cl, cs,
                                 current, target, Tail(nbs))
             ELSE Relax(ns, op, cl, cs, current, target, Tail(nbs))

\* the backward walk without the final .rev()
RECURSIVE WalkParentsNoRev(_, _, _, _)
WalkParentsNoRev(ns, current, path, fuel) ==
    IF ns[current].parent = None THEN [ends |-> TRUE, path |-> path, last |-> current]
    ELSE IF fuel = 0 THEN [ends |-> FALSE, path |-> path, last |-> current]
    ELSE WalkParentsNoRev(ns, ns[current].parent,
                          Append(path, ns[current].parent), fuel - 1)

\* the backward walk over parent pointers; fuel bounds the walk, and a walk
\* that outlives it is in a cycle of parents and never ends
RECURSIVE WalkParents(_, _, _, _)
WalkParents(ns, current, path, fuel) ==
    IF ns[current].parent = None THEN [ends |-> TRUE, path |-> path, last |-> current]
    ELSE IF fuel = 0 THEN [ends |-> FALSE, path |-> path, last |-> current]
    ELSE WalkParents(ns, ns[current].parent,
                     <<ns[current].parent>> \o path, fuel - 1)

\* Pathfinder::best_route
BestRoutePositions(ns, route) == [i \in 1..Len(route) |-> ns[route[i]].position]

\* -------------------------------------------------------------- path.rs
\* Web::route
WebRoute ==
    IF best_route = NoRoute THEN [panics |-> TRUE, points |-> <<>>]
    ELSE [panics |-> FALSE, points |-> BestRoutePositions(nodes, best_route)]

\* ---------------------------------------------------------------- state
Init ==
    /\ \E n \in 0..MaxNodes : positions = SubSeq(Points, 1, n)
    /\ conns_in \in ConnInputs
    /\ start \in 0..MaxNodes
    /\ end \in 0..MaxNodes
    /\ nodes = <<>>
    /\ connections = <<>>
    /\ best_route = NoRoute
    /\ open = <<>>
    /\ closed = <<>>
    /\ pc = "start"
    /\ result = "none"
    /\ lastCall = "none"
    /\ prevRoute = NoRoute
    /\ prevConnections = <<>>
    /\ RouteOff /\ GeomOff /\ GameOff

\* lines 179-184 of pathfind
BeginSearch(ns, next_pc) ==
    LET g0 == [ns EXCEPT ![start].g_cost = 0]
        target == g0[end]
    IN  /\ nodes' = [g0 EXCEPT ![start] = HCostCalculate(g0[start], target)]
        /\ open' = <<start>>
        /\ closed' = <<>>
        /\ pc' = next_pc

\* Web::new testing the endpoints after matching on the pathfinder
WebNewOutcomeLateTest(pos, cs, s, e) ==
    IF \E i \in 1..Len(cs) : cs[i][1] >= Len(pos) \/ cs[i][2] >= Len(pos)
    THEN "panic"
    ELSE IF ~PathfinderNew(pos, cs, 0).some THEN "InvalidRoute"
    ELSE IF s >= Len(pos) \/ e >= Len(pos) THEN "InvalidEndpoints"
    ELSE "search"

\* Web::new up to its call of pathfind: how it leaves that part
\*   "panic"  points[a] / points[b] is an index out of bounds
\*   "search" the pathfinder was built and x.pathfind(start, end) is called
WebNewOutcome(pos, cs, s, e) ==
    IF \E i \in 1..Len(cs) : cs[i][1] >= Len(pos) \/ cs[i][2] >= Len(pos)
    THEN "panic"
    ELSE IF s >= Len(pos) \/ e >= Len(pos) THEN "InvalidEndpoints"
    ELSE IF PathfinderNew(pos, cs, 0).some THEN "search"
    ELSE "InvalidRoute"

WebNew ==
    /\ pc = "start"
    /\ UNCHANGED notPath
    /\ UNCHANGED <<positions, conns_in, start, end, prevRoute, prevConnections>>
    /\ LET outcome == WebNewOutcome(positions, conns_in, start, end)
           pathfinder == PathfinderNew(positions, conns_in, 0)
       IN  IF outcome = "search"
           THEN /\ connections' = pathfinder.connections
                /\ best_route' = pathfinder.best_route
                /\ lastCall' = "new"
                /\ result' = "none"
                /\ BeginSearch(pathfinder.nodes, "web_new")
           ELSE /\ pc' = IF outcome = "panic" THEN "panicked" ELSE "returned"
                /\ result' = outcome
                /\ UNCHANGED <<nodes, connections, best_route, open, closed,
                               lastCall>>

\* Pathfinder::new called directly
PathfinderNewCall ==
    /\ pc = "start"
    /\ UNCHANGED notPath
    /\ UNCHANGED <<positions, conns_in, start, end, open, closed,
                   prevRoute, prevConnections>>
    /\ LET pathfinder == PathfinderNew(positions, conns_in, 0)
       IN  IF pathfinder.some
           THEN /\ nodes' = pathfinder.nodes
                /\ connections' = pathfinder.connections
                /\ best_route' = pathfinder.best_route
                /\ lastCall' = "new"
                /\ result' = "Some"
                /\ pc' = "idle"
           ELSE /\ result' = "None"
                /\ pc' = "returned"
                /\ UNCHANGED <<nodes, connections, best_route, lastCall>>

\* Web::pathfind / Pathfinder::pathfind(start, end), up to the loop
Pathfind ==
    /\ pc = "idle"
    /\ UNCHANGED notPath
    /\ UNCHANGED <<positions, conns_in, start, end, connections, best_route,
                   result, lastCall, prevRoute, prevConnections>>
    /\ IF start >= Len(positions) \/ end >= Len(positions)
       THEN \* self.nodes[start.0] / self.nodes[end.0]: index out of bounds
            /\ pc' = "panicked"
            /\ UNCHANGED <<nodes, open, closed>>
       ELSE BeginSearch(nodes, "pathfind")

Searching == pc \in {"web_new", "pathfind"}

Current == open[CurrentIndex(nodes, open, 1, None)]

\* the loop's fold(...).unwrap() on an empty open list
PathfindExhausted ==
    /\ Searching
    /\ UNCHANGED notPath
    /\ open = <<>>
    /\ pc' = "panicked"
    /\ result' = IF pc = "web_new" THEN "panic" ELSE result
    /\ UNCHANGED <<positions, conns_in, start, end, nodes, connections, best_route,
                   open, closed, lastCall, prevRoute, prevConnections>>

\* one iteration that pops end: the route is rebuilt and pathfind returns
PathfindFinish ==
    /\ Searching
    /\ UNCHANGED notPath
    /\ open # <<>>
    /\ Current = end
    /\ LET walk == WalkParents(nodes, end, <<end>>, Len(positions))
       IN  /\ open' = RemoveAt(open, CurrentIndex(nodes, open, 1, None))
           /\ closed' = Append(closed, end)
           /\ IF ~walk.ends
              THEN /\ pc' = "hung"
                   /\ UNCHANGED <<best_route, result, lastCall>>
              ELSE IF walk.last # start
              THEN \* assert_eq!(current, start)
                   /\ pc' = "panicked"
                   /\ result' = IF pc = "web_new" THEN "panic" ELSE result
                   /\ UNCHANGED <<best_route, lastCall>>
              ELSE /\ best_route' = walk.path
                   /\ lastCall' = "pathfind"
                   /\ result' = IF pc = "web_new" THEN "Ok" ELSE result
                   /\ pc' = "idle"
    /\ UNCHANGED <<positions, conns_in, start, end, nodes, connections,
                   prevRoute, prevConnections>>

\* one iteration that pops another node and relaxes its neighbours
PathfindExpand ==
    /\ Searching
    /\ UNCHANGED notPath
    /\ open # <<>>
    /\ Current # end
    /\ LET i == CurrentIndex(nodes, open, 1, None)
           current == open[i]
           after == Relax(nodes, RemoveAt(open, i), Append(closed, current),
                          connections, current, nodes[end],
                          Neighbours(connections, current, 1))
       IN  /\ closed' = Append(closed, current)
           /\ nodes' = after.nodes
           /\ open' = after.open
    /\ UNCHANGED <<positions, conns_in, start, end, connections, best_route,
                   pc, result, lastCall, prevRoute, prevConnections>>

\* recalculate_weights without `self.best_route = None`
RecalculateWeightsKeepingRoute ==
    /\ pc = "idle"
    /\ UNCHANGED notPath
    /\ \E k \in 0..MaxTowers :
          connections' = RecalculatedWeights(nodes, connections, k)
    /\ lastCall' = "recalculate_weights"
    /\ prevRoute' = best_route
    /\ prevConnections' = connections
    /\ UNCHANGED <<positions, conns_in, start, end, nodes, open, closed, pc, result,
                   best_route>>

\* Web::recalculate_weights / Pathfinder::recalculate_weights
RecalculateWeights ==
    /\ pc = "idle"
    /\ UNCHANGED notPath
    /\ \E k \in 0..MaxTowers :
          connections' = RecalculatedWeights(nodes, connections, k)
    /\ best_route' = NoRoute
    /\ lastCall' = "recalculate_weights"
    /\ prevRoute' = best_route
    /\ prevConnections' = connections
    /\ UNCHANGED <<positions, conns_in, start, end, nodes, open, closed, pc, result>>

Next ==
    \/ WebNew
    \/ PathfinderNewCall
    \/ Pathfind
    \/ PathfindExhausted
    \/ PathfindFinish
    \/ PathfindExpand
    \/ RecalculateWeights

Spec == Init /\ [][Next]_vars

\* ------------------------- pathfind.rs: one Pathfinder, several searches
\* the webs searched from several starts
SearchWebs ==
    { SquareCycle, Repeated, SubList(CandConns, 1..MaxConns, 1) }

InitSearch ==
    /\ positions = SubSeq(Points, 1, MaxNodes)
    /\ conns_in \in SearchWebs
    /\ start \in 0..(MaxNodes - 1)
    /\ end \in 0..(MaxNodes - 1)
    /\ nodes = <<>>
    /\ connections = <<>>
    /\ best_route = NoRoute
    /\ open = <<>>
    /\ closed = <<>>
    /\ pc = "start"
    /\ result = "none"
    /\ lastCall = "none"
    /\ prevRoute = NoRoute
    /\ prevConnections = <<>>
    /\ RouteOff /\ GeomOff /\ GameOff

\* Pathfinder::pathfind(s, end) with any in-range start s, up to the loop:
\* nothing but the g_cost and h_cost of s is reset (lines 179-184)
PathfindFrom ==
    /\ pc = "idle"
    /\ UNCHANGED notPath
    /\ \E s \in 0..(Len(positions) - 1) :
          LET g0 == [nodes EXCEPT ![s].g_cost = 0]
              target == g0[end]
          IN  /\ start' = s
              /\ nodes' = [g0 EXCEPT ![s] = HCostCalculate(g0[s], target)]
              /\ open' = <<s>>
              /\ closed' = <<>>
              /\ pc' = "pathfind"
    /\ UNCHANGED <<positions, conns_in, end, connections, best_route,
                   result, lastCall, prevRoute, prevConnections>>

NextSearch ==
    \/ PathfinderNewCall
    \/ PathfindFrom
    \/ PathfindExhausted
    \/ PathfindFinish
    \/ PathfindExpand
    \/ RecalculateWeights

SpecSearch == InitSearch /\ [][NextSearch]_vars

\* ------------------------------------------------------------ f32 values
\* An f32 is an exact fraction n / d in lowest terms with d >= 0; d = 0 is a
\* non-finite value: 1/0 is +inf, -1/0 is -inf and 0/0 is NaN.  Only the
\* square root rounds (down, to a multiple of 1 / Scale) when it is irrational.
Abs(i) == IF i < 0 THEN -i ELSE i

Sign(i) == IF i < 0 THEN -1 ELSE IF i > 0 THEN 1 ELSE 0

RECURSIVE GCD(_, _)
GCD(i, j) == IF j = 0 THEN i ELSE GCD(j, i % j)

Frac(n, d) ==
    IF d = 0 THEN [n |-> Sign(n), d |-> 0]
    ELSE LET g == GCD(Abs(n), Abs(d))
         IN  [n |-> Sign(d) * (n \div g), d |-> Abs(d) \div g]

F(i) == [n |-> i, d |-> 1]

NaN == [n |-> 0, d |-> 0]

FIsNaN(x) == x.d = 0 /\ x.n = 0

\* f32::is_finite
FIsFinite(x) == x.d # 0

FNeg(x) == [n |-> -x.n, d |-> x.d]

\* f32::abs
FAbs(x) == [n |-> Abs(x.n), d |-> x.d]

\* the least common denominator of two finite values
LCD(x, y) == (x.d \div GCD(x.d, y.d)) * y.d

FAdd(x, y) ==
    IF x.d = 0 /\ y.d = 0 THEN (IF x.n = y.n THEN x ELSE NaN)
    ELSE IF x.d = 0 \/ y.d = 0 THEN Frac(x.n * y.d + y.n * x.d, 0)
    ELSE Frac(x.n * (LCD(x, y) \div x.d) + y.n * (LCD(x, y) \div y.d), LCD(x, y))

FSub(x, y) == FAdd(x, FNeg(y))

FMul(x, y) == Frac(x.n * y.n, x.d * y.d)

\* 1 / y: 1 / 0 is +inf, 1 / inf is 0
FRecip(y) ==
    IF y.n < 0 THEN [n |-> -y.d, d |-> -y.n] ELSE [n |-> y.d, d |-> y.n]

FDiv(x, y) == FMul(x, FRecip(y))

\* the comparisons of f32: every comparison with NaN is false
FLt(x, y) ==
    /\ ~FIsNaN(x) /\ ~FIsNaN(y)
    /\ IF x.d = 0 /\ y.d = 0 THEN x.n < y.n
       ELSE IF x.d = 0 \/ y.d = 0 THEN x.n * y.d < y.n * x.d
       ELSE x.n * (LCD(x, y) \div x.d) < y.n * (LCD(x, y) \div y.d)

FEq(x, y) == ~FIsNaN(x) /\ ~FIsNaN(y) /\ x = y

FLe(x, y) == FLt(x, y) \/ FEq(x, y)

FGe(x, y) == FLe(y, x)

FGt(x, y) == FLt(y, x)

\* f32::sqrt: exact on the squares, rounded down to a multiple of
\* 1 / (d * Scale) otherwise, and to a multiple of 1 / Scale where that
\* would not fit the integers of the model
FSqrt(x) ==
    IF FIsNaN(x) \/ x.n < 0 THEN NaN
    ELSE IF x.d = 0 THEN x
    ELSE IF x.n <= ((2^30 - 1) * 2 + 1) \div (x.d * Scale * Scale)
    THEN LET q == x.n * x.d
             s == ISqrt(q)
         IN  IF s * s = q THEN Frac(s, x.d)
             ELSE Frac(ISqrt(q * Scale * Scale), x.d * Scale)
    ELSE Frac(ISqrt((x.n \div x.d) * Scale * Scale
                        + ((x.n % x.d) * Scale * Scale) \div x.d), Scale)

\* f32::clamp: NaN stays NaN
FClamp(x, lo, hi) ==
    IF FLt(x, lo) THEN lo ELSE IF FGt(x, hi) THEN hi ELSE x

\* f32::min and f32::max: the other operand when one is NaN
FMin(x, y) == IF FIsNaN(x) THEN y ELSE IF FIsNaN(y) THEN x
              ELSE IF FLt(y, x) THEN y ELSE x

FMax(x, y) == IF FIsNaN(x) THEN y ELSE IF FIsNaN(y) THEN x
              ELSE IF FGt(y, x) THEN y ELSE x

\* -------------------------------------------------- vector.rs, over f32
FVec(x, y) == [x |-> F(x), y |-> F(y)]

\* a Vector of whole coordinates as a Vector of f32 values
ToF(v) == [x |-> F(v.x), y |-> F(v.y)]

ToFs(ps) == [i \in 1..Len(ps) |-> ToF(ps[i])]

FVAdd(v, w) == [x |-> FAdd(v.x, w.x), y |-> FAdd(v.y, w.y)]

FVSub(v, w) == [x |-> FSub(v.x, w.x), y |-> FSub(v.y, w.y)]

\* Mul<f32> for Vector
FVMul(v, t) == [x |-> FMul(v.x, t), y |-> FMul(v.y, t)]

\* Div<f32> for Vector
FVDiv(v, t) == [x |-> FDiv(v.x, t), y |-> FDiv(v.y, t)]

\* Vector::sqr_length
FSqrLength(v) == FAdd(FMul(v.x, v.x), FMul(v.y, v.y))

\* Vector::length
FLength(v) == FSqrt(FSqrLength(v))

FVIsNaN(v) == FIsNaN(v.x) \/ FIsNaN(v.y)

\* ----------------------------------------------------------- path.rs Route
\* the fold of Route::from_positions_unchecked over enumerate().skip(1)
RECURSIVE FoldLength(_, _, _)
FoldLength(ps, i, acc) ==
    IF i > Len(ps) THEN acc
    ELSE FoldLength(ps, i + 1, FAdd(acc, FLength(FVSub(ps[i], ps[i - 1]))))

\* Route::from_positions_unchecked: no test of the point count
FromPositionsUnchecked(ps) ==
    [points |-> ps, length |-> FoldLength(ps, 2, F(0))]

\* the loop of Route::get_position from segment i on, and the indexing
\* self.points[self.points.len() - 1] after it
RECURSIVE GetPositionLoop(_, _, _, _)
GetPositionLoop(rt, p, i, progress_made) ==
    IF i >= Len(rt.points)
    THEN IF Len(rt.points) = 0
         THEN [panics |-> TRUE, pos |-> [x |-> NaN, y |-> NaN]]
         ELSE [panics |-> FALSE, pos |-> rt.points[Len(rt.points)]]
    ELSE LET a == rt.points[i]
             b == rt.points[i + 1]
             dist == FDiv(FLength(FVSub(b, a)), rt.length)
         IN  IF FGe(FAdd(progress_made, dist), p)
             THEN [panics |-> FALSE,
                   pos |-> FVAdd(a, FVDiv(FVMul(FVSub(b, a), FSub(p, progress_made)),
                                          dist))]
             ELSE GetPositionLoop(rt, p, i + 1, FAdd(progress_made, dist))

\* Route::get_position
GetPosition(rt, p) == GetPositionLoop(rt, FClamp(p, F(0), F(1)), 1, F(0))

MaxPoints == 3

\* the points a Route is built from: corners of a square, so that routes
\* with coincident consecutive points and with repeated visits occur
RoutePoints == { Vec(0, 0), Vec(10, 0), Vec(10, 10), Vec(0, 10) }

RouteInputs == UNION { [1..n -> RoutePoints] : n \in 0..MaxPoints }

Progresses == { Frac(-1, 2), F(0), Frac(1, 4), Frac(1, 2), Frac(3, 4), F(1),
                Frac(3, 2) }

InitRoute ==
    /\ PathOff /\ GeomOff /\ GameOff
    /\ r_positions \in RouteInputs
    /\ r_route = <<>>
    /\ r_progress = F(0)
    /\ r_position = <<>>
    /\ r_pc = "start"

\* Route::from_positions_unchecked(positions)
RouteFromPositionsUnchecked ==
    /\ r_pc = "start"
    /\ r_route' = FromPositionsUnchecked(ToFs(r_positions))
    /\ r_pc' = "built"
    /\ UNCHANGED <<r_positions, r_progress, r_position>>
    /\ UNCHANGED <<pathVars, geomVars, gameVars>>

\* route.get_position(progress)
RouteGetPosition ==
    /\ r_pc \in {"built", "queried"}
    /\ \E p \in Progresses :
          /\ r_progress' = p
          /\ r_position' = GetPosition(r_route, p).pos
          /\ r_pc' = IF GetPosition(r_route, p).panics THEN "panicked"
                     ELSE "queried"
    /\ UNCHANGED <<r_positions, r_route>>
    /\ UNCHANGED <<pathVars, geomVars, gameVars>>

NextRoute ==
    \/ RouteFromPositionsUnchecked
    \/ RouteGetPosition

SpecRoute == InitRoute /\ [][NextRoute]_vars

\* --------------------------------------------------------- collisions.rs
\* point_circle_collision(..).is_some()
PointCircleCollision(centre, radius, p) ==
    FLe(FSqrLength(FVSub(p, centre)), FMul(radius, radius))

\* quadratic, as the list QuadraticSolution::into_iter gives
Quadratic(qa, qb, qc) ==
    LET discriminant == FSub(FMul(qb, qb), FMul(F(4), FMul(qa, qc)))
    IN  IF FGt(discriminant, F(0))
        THEN << FDiv(FAdd(FNeg(qb), FSqrt(discriminant)), FMul(F(2), qa)),
                FDiv(FSub(FNeg(qb), FSqrt(discriminant)), FMul(F(2), qa)) >>
        ELSE IF FEq(discriminant, F(0))
        THEN << FDiv(FNeg(qb), FMul(F(2), qa)) >>
        ELSE << >>

\* the endpoints pushed by the loop over [a, b]
EndpointCollisions(centre, radius, a, b) ==
    LET Inside(p) == PointCircleCollision(centre, radius, p)
    IN  SelectSeq(<<a, b>>, Inside)

\* the points added by the branch on m.is_finite()
LineCollisions(centre, radius, a, b) ==
    LET m == FDiv(FSub(b.y, a.y), FSub(b.x, a.x))
    IN  IF FIsFinite(m)
        THEN LET c == FSub(b.y, FMul(m, b.x))
                 x_coords ==
                     Quadratic(FAdd(F(1), FMul(m, m)),
                               FMul(F(2), FSub(FMul(m, FSub(c, centre.y)), centre.x)),
                               FSub(FAdd(FMul(centre.x, centre.x),
                                         FMul(FSub(c, centre.y), FSub(c, centre.y))),
                                    FMul(radius, radius)))
                 InRange(x) == FGe(x, FMin(a.x, b.x)) /\ FLe(x, FMax(a.x, b.x))
                 kept == SelectSeq(x_coords, InRange)
             IN  [i \in 1..Len(kept) |->
                    [x |-> kept[i], y |-> FAdd(FMul(m, kept[i]), c)]]
        ELSE LET x == a.x
                 dy_squared == FSub(FMul(radius, radius),
                                    FMul(FSub(x, centre.x), FSub(x, centre.x)))
             IN  IF FGe(dy_squared, F(0))
                 THEN << [x |-> x, y |-> FAdd(centre.y, FSqrt(dy_squared))],
                         [x |-> x, y |-> FSub(centre.y, FSqrt(dy_squared))] >>
                 ELSE << >>

\* line_circle_collision: the assert, then from_vec(collisions).unwrap();
\* points is <<>> for None, one point for One and two points for Two
LineCircleCollision(centre, radius, a, b) ==
    LET collisions == EndpointCollisions(centre, radius, a, b)
                        \o LineCollisions(centre, radius, a, b)
    IN  IF Len(collisions) <= 2
        THEN [called |-> TRUE, panics |-> FALSE, points |-> collisions]
        ELSE [called |-> TRUE, panics |-> TRUE, points |-> collisions]

\* whole coordinates in and around a circle of radius 5: (5, 0), (3, 4) and
\* (0, 5) lie on it, (3, 3) inside it and (3, 5) outside it
GeomCoords == { -10, -5, -3, 0, 3, 4, 5, 10 }

GeomPoints == { Vec(x, y) : x, y \in GeomCoords }

GeomCentres == { Vec(0, 0), Vec(0, -5) }

GeomRadii == { 5 }

\* segments on which the f32 operations of line_circle_collision are exact
\* or compare as their exact values do: horizontal, vertical and diagonal
\* ones, and the segment of length 0
ExactSegment(a, b) ==
    \/ a.x = b.x
    \/ a.y = b.y
    \/ Abs(a.x - b.x) = Abs(a.y - b.y)

InitGeom ==
    /\ PathOff /\ RouteOff /\ GameOff
    /\ \E centre \in GeomCentres, radius \in GeomRadii :
          circle = [centre |-> ToF(centre), radius |-> F(radius)]
    /\ \E a, b \in GeomPoints :
          /\ ExactSegment(a, b)
          /\ line = [a |-> ToF(a), b |-> ToF(b)]
    /\ collision = [called |-> FALSE, panics |-> FALSE, points |-> <<>>]
    /\ segment2 = <<>> /\ sector = <<>> /\ angles = <<>>

\* line_circle_collision(centre, radius, a, b)
LineCircleCollisionCall ==
    /\ ~collision.called
    /\ collision' = LineCircleCollision(circle.centre, circle.radius,
                                        line.a, line.b)
    /\ UNCHANGED <<circle, line, segment2, sector, angles>>
    /\ UNCHANGED <<pathVars, routeVars, gameVars>>

NextGeom == LineCircleCollisionCall

SpecGeom == InitGeom /\ [][NextGeom]_vars

\* ------------------------------------------- main.rs, rounds.rs: the game
MaxEnemies == 2

\* the price() of the towers (tower.rs)
SectorTowerPrice == 15
TestTowerPrice == 25

TowerKinds == {"SectorTower", "TestTower"}

Price(tower) == IF tower = "SectorTower" THEN SectorTowerPrice ELSE TestTowerPrice

\* main.rs
SCREEN_WIDTH == 1920
SCREEN_HEIGHT == 1080
StartingMoney == 30

\* the webs of the game model: the square with both directions of every
\* side, on which towers move the best route, and the list with repeats
GameWebs == { SquareCycle, Repeated }

\* TestEnemy::spawn / FastEnemy::spawn: the enemy owns the Route it is given
EnemySpawn(path) == [path |-> path, progress |-> F(0)]

InitGame ==
    /\ positions = SubSeq(Points, 1, MaxNodes)
    /\ conns_in \in GameWebs
    /\ start \in 0..(MaxNodes - 1)
    /\ end \in 0..(MaxNodes - 1)
    /\ nodes = <<>>
    /\ connections = <<>>
    /\ best_route = NoRoute
    /\ open = <<>>
    /\ closed = <<>>
    /\ pc = "start"
    /\ result = "none"
    /\ lastCall = "none"
    /\ prevRoute = NoRoute
    /\ prevConnections = <<>>
    /\ enemies = <<>>
    /\ towers = 0
    /\ money = StartingMoney
    /\ released = <<>>
    /\ RouteOff /\ GeomOff /\ RoundOff /\ DragOff

\* spawn_enemy handing every enemy, old and new, the route of the web, as
\* if the Route were shared with the web instead of copied
SpawnEnemySharingRoute ==
    /\ pc = "idle"
    /\ Len(enemies) < MaxEnemies
    /\ IF WebRoute.panics
       THEN pc' = "panicked" /\ UNCHANGED enemies
       ELSE LET path == FromPositionsUnchecked(ToFs(WebRoute.points))
            IN  /\ enemies' = [i \in 1..(Len(enemies) + 1) |-> EnemySpawn(path)]
                /\ UNCHANGED pc
    /\ UNCHANGED <<positions, conns_in, start, end, nodes, connections, best_route,
                   open, closed, result, lastCall, prevRoute, prevConnections>>
    /\ UNCHANGED <<towers, money, released, notGame>>

\* Round::spawn_enemy while enemies are left to spawn: path.route() is
\* copied into a new Route, which the new enemy owns
SpawnEnemy ==
    /\ pc = "idle"
    /\ Len(enemies) < MaxEnemies
    /\ IF WebRoute.panics
       THEN pc' = "panicked" /\ UNCHANGED enemies
       ELSE LET path == FromPositionsUnchecked(ToFs(WebRoute.points))
            IN  /\ enemies' = Append(enemies, EnemySpawn(path))
                /\ UNCHANGED pc
    /\ UNCHANGED <<positions, conns_in, start, end, nodes, connections, best_route,
                   open, closed, result, lastCall, prevRoute, prevConnections>>
    /\ UNCHANGED <<towers, money, released, notGame>>

\* the test of the release callback on the release position: x in
\* 130.0..=SCREEN_WIDTH - 10.0 and y in 10.0..SCREEN_HEIGHT - 10.0
InPlacementBounds(position) ==
    /\ 130 <= position[1] /\ position[1] <= SCREEN_WIDTH - 10
    /\ 10 <= position[2] /\ position[2] < SCREEN_HEIGHT - 10

\* the positions a drag is released at: on both sides of every edge of the
\* placement bounds
ReleasePositions ==
    {129, 130, SCREEN_WIDTH - 10, SCREEN_WIDTH - 9}
        \X {9, 10, SCREEN_HEIGHT - 11, SCREEN_HEIGHT - 10}

\* the release callback ending after recalculate_weights, without the call
\* of state.path.pathfind()
PlaceTowerNoPathfind ==
    /\ pc = "idle"
    /\ \E position \in ReleasePositions, tower \in TowerKinds :
         /\ released' = [position |-> position, tower |-> tower]
         /\ IF InPlacementBounds(position) /\ Price(tower) <= money
            THEN /\ towers < MaxTowers
                 /\ money' = money - Price(tower)
                 /\ towers' = towers + 1
                 /\ connections' = RecalculatedWeights(nodes, connections, towers + 1)
                 /\ best_route' = NoRoute
                 /\ lastCall' = "recalculate_weights"
                 /\ prevRoute' = best_route
                 /\ prevConnections' = connections
                 /\ UNCHANGED <<nodes, open, closed, pc>>
            ELSE UNCHANGED <<money, towers, nodes, connections, best_route,
                             open, closed, pc, lastCall, prevRoute, prevConnections>>
    /\ UNCHANGED <<positions, conns_in, start, end, result>>
    /\ UNCHANGED <<enemies, notGame>>

\* the release callback without the test price <= state.money
PlaceTowerNoPriceTest ==
    /\ pc = "idle"
    /\ \E position \in ReleasePositions, tower \in TowerKinds :
         /\ released' = [position |-> position, tower |-> tower]
         /\ IF InPlacementBounds(position)
            THEN /\ towers < MaxTowers
                 /\ money' = money - Price(tower)
                 /\ towers' = towers + 1
                 /\ connections' = RecalculatedWeights(nodes, connections, towers + 1)
                 /\ best_route' = NoRoute
                 /\ lastCall' = "recalculate_weights"
                 /\ prevRoute' = best_route
                 /\ prevConnections' = connections
                 /\ BeginSearch(nodes, "pathfind")
            ELSE UNCHANGED <<money, towers, nodes, connections, best_route,
                             open, closed, pc, lastCall, prevRoute, prevConnections>>
    /\ UNCHANGED <<positions, conns_in, start, end, result>>
    /\ UNCHANGED <<enemies, notGame>>

\* the release callback of a tower button, for a drag released at position:
\* over the play area and with enough money the tower is paid and pushed,
\* the weights are recalculated with every tower placed so far, and
\* state.path.pathfind() starts its search; released records the arguments.
\* The hover position and the placement direction and range, which only the
\* drawing reads, are left out.
PlaceTower ==
    /\ pc = "idle"
    /\ \E position \in ReleasePositions, tower \in TowerKinds :
         /\ released' = [position |-> position, tower |-> tower]
         /\ IF InPlacementBounds(position) /\ Price(tower) <= money
            THEN /\ towers < MaxTowers
                 /\ money' = money - Price(tower)
                 /\ towers' = towers + 1
                 /\ connections' = RecalculatedWeights(nodes, connections, towers + 1)
                 /\ best_route' = NoRoute
                 /\ lastCall' = "recalculate_weights"
                 /\ prevRoute' = best_route
                 /\ prevConnections' = connections
                 /\ BeginSearch(nodes, "pathfind")
            ELSE UNCHANGED <<money, towers, nodes, connections, best_route,
                             open, closed, pc, lastCall, prevRoute, prevConnections>>
    /\ UNCHANGED <<positions, conns_in, start, end, result>>
    /\ UNCHANGED <<enemies, notGame>>

NextGame ==
    \/ WebNew
    \/ PathfindExhausted
    \/ PathfindFinish
    \/ PathfindExpand
    \/ SpawnEnemy
    \/ PlaceTower

SpecGame == InitGame /\ [][NextGame]_vars

\* ------------------------------------------- tower.rs: angles, over f32
\* Angles are measured in half-turns: PI is 1 and a full turn is 2, so the
\* multiples of PI / 4 and PI / 3 are exact fractions.
PI == F(1)

\* the % of f32: the remainder of the truncated division, with the sign of x
FRem(x, y) ==
    IF x.d = 0 \/ FIsNaN(y) \/ y.n = 0 THEN NaN
    ELSE IF y.d = 0 THEN x
    ELSE LET q == FDiv(x, y)
             t == Sign(q.n) * (Abs(q.n) \div q.d)
         IN  FSub(x, FMul(F(t), y))

\* f32::signum: 1.0 for +0.0 and above, -1.0 below, NaN for NaN
FSignum(x) == IF FIsNaN(x) THEN NaN ELSE IF x.n >= 0 THEN F(1) ELSE F(-1)

\* shortest_angle_distance without the final `* (theta2 - theta1).signum()`
ShortestAngleDistanceNoSign(theta1, theta2) ==
    LET distance == IF FGt(theta2, theta1)
                    THEN FRem(FSub(theta2, theta1), FMul(F(2), PI))
                    ELSE FRem(FSub(theta1, theta2), FMul(F(2), PI))
    IN  IF FGt(FAbs(distance), PI)
        THEN FMul(FSub(FMul(F(2), PI), FAbs(distance)), FNeg(FSignum(distance)))
        ELSE distance

\* shortest_angle_distance
ShortestAngleDistance(theta1, theta2) ==
    LET distance == IF FGt(theta2, theta1)
                    THEN FRem(FSub(theta2, theta1), FMul(F(2), PI))
                    ELSE FRem(FSub(theta1, theta2), FMul(F(2), PI))
    IN  FMul(IF FGt(FAbs(distance), PI)
             THEN FMul(FSub(FMul(F(2), PI), FAbs(distance)),
                       FNeg(FSignum(distance)))
             ELSE distance,
             FSignum(FSub(theta2, theta1)))

AngleRange == 12

\* the angles of the calls: multiples of PI / 4 and of PI / 3 over several
\* turns in both directions
Angles ==
    { Frac(k, 4) : k \in (-AngleRange)..AngleRange }
        \cup { Frac(k, 3) : k \in (-AngleRange)..AngleRange }

InitAngle ==
    /\ PathOff /\ RouteOff /\ GameOff
    /\ circle = <<>> /\ line = <<>> /\ segment2 = <<>> /\ sector = <<>>
    /\ \E theta1, theta2 \in Angles :
          angles = [theta1 |-> theta1, theta2 |-> theta2]
    /\ collision = [called |-> FALSE, forward |-> F(0), backward |-> F(0)]

\* shortest_angle_distance(theta1, theta2) and
\* shortest_angle_distance(theta2, theta1)
ShortestAngleDistanceCall ==
    /\ ~collision.called
    /\ collision' =
          [called |-> TRUE,
           forward |-> ShortestAngleDistance(angles.theta1, angles.theta2),
           backward |-> ShortestAngleDistance(angles.theta2, angles.theta1)]
    /\ UNCHANGED <<circle, line, segment2, sector, angles>>
    /\ UNCHANGED <<pathVars, routeVars, gameVars>>

NextAngle == ShortestAngleDistanceCall

SpecAngle == InitAngle /\ [][NextAngle]_vars

\* ----------------------------------- collisions.rs: line_line_collision
\* simultaneous_equations(a, b, c, d, e, f): the solution (x, y) of
\* ax + by = c and dx + ey = f
SimultaneousEquations(a, b, c, d, e, f) ==
    LET x == FDiv(FSub(FMul(b, f), FMul(e, c)), FSub(FMul(b, d), FMul(e, a)))
        y == FDiv(FSub(c, FMul(a, x)), b)
    IN  <<x, y>>

\* line_line_collision(a1, b1, a2, b2): an Option<Vector>, as a record with
\* the flag `some`
LineLineCollision(a1, b1, a2, b2) ==
    LET point1 == a1
        direction1 == FVSub(b1, a1)
        point2 == a2
        direction2 == FVSub(b2, a2)
        params == SimultaneousEquations(direction1.x, FNeg(direction2.x),
                                        FSub(point2.x, point1.x),
                                        direction1.y, FNeg(direction2.y),
                                        FSub(point2.y, point1.y))
        param1 == params[1]
        param2 == params[2]
        p1 == FVAdd(point1, FVMul(direction1, param1))
        p2 == FVAdd(point2, FVMul(direction2, param2))
        point == FVDiv(FVAdd(p1, p2), F(2))
    IN  IF /\ FGe(param1, F(0))
           /\ FLe(param1, FDiv(FLength(FVSub(a1, b1)), FLength(direction1)))
           /\ FGe(param2, F(0))
           /\ FLe(param2, FDiv(FLength(FVSub(a2, b2)), FLength(direction2)))
        THEN [some |-> TRUE, point |-> point]
        ELSE [some |-> FALSE, point |-> FVec(0, 0)]

LineCoords == { -2, 0, 1 }

LinePoints == { Vec(x, y) : x, y \in LineCoords }

InitLines ==
    /\ PathOff /\ RouteOff /\ GameOff
    /\ circle = <<>> /\ sector = <<>> /\ angles = <<>>
    /\ \E a1, b1 \in LinePoints : line = [a |-> ToF(a1), b |-> ToF(b1)]
    /\ \E a2, b2 \in LinePoints : segment2 = [a |-> ToF(a2), b |-> ToF(b2)]
    /\ collision = [called |-> FALSE, some |-> FALSE, point |-> FVec(0, 0)]

\* line_line_collision(a1, b1, a2, b2)
LineLineCollisionCall ==
    /\ ~collision.called
    /\ collision' =
          [called |-> TRUE] @@ LineLineCollision(line.a, line.b,
                                                 segment2.a, segment2.b)
    /\ UNCHANGED <<circle, line, segment2, sector, angles>>
    /\ UNCHANGED <<pathVars, routeVars, gameVars>>

NextLines == LineLineCollisionCall

SpecLines == InitLines /\ [][NextLines]_vars

\* -------------------------------- collisions.rs: line_sector_collision
\* f32::atan of t in 0..1, in half-turns: exact at 0 and 1, and within
\* 0.002 of a half-turn in between (t is rounded down to a multiple of
\* 1 / Scale)
ATanUnit(t) ==
    LET k == (t.n * Scale) \div t.d
    IN  FAdd(Frac(k, 4 * Scale), Frac(2 * k * (Scale - k), 23 * Scale * Scale))

\* Vector::angle: f32::atan2(y, x) in half-turns, in the range (-1, 1];
\* exact on the axes and the diagonals
FAngle(v) ==
    IF FVIsNaN(v) \/ v.x.d = 0 \/ v.y.d = 0 THEN NaN
    ELSE IF v.x.n = 0 /\ v.y.n = 0 THEN F(0)
    ELSE LET ax == FAbs(v.x)
             ay == FAbs(v.y)
             alpha == IF FLe(ay, ax) THEN ATanUnit(FDiv(ay, ax))
                      ELSE FSub(Frac(1, 2), ATanUnit(FDiv(ax, ay)))
             theta == IF v.x.n >= 0 THEN alpha ELSE FSub(PI, alpha)
         IN  IF v.y.n >= 0 THEN theta ELSE FNeg(theta)

\* the number of quarter turns of an angle along an axis, in 0..3
QuarterTurns(angle) ==
    LET r == FRem(angle, FMul(F(2), PI))
        q == FMul(F(2), IF r.n < 0 THEN FAdd(r, FMul(F(2), PI)) ELSE r)
    IN  CASE q.d = 1 -> q.n

\* f32::cos and f32::sin of an angle along an axis
FCos(angle) == F(<<1, 0, -1, 0>>[QuarterTurns(angle) + 1])

FSin(angle) == F(<<0, 1, 0, -1>>[QuarterTurns(angle) + 1])

\* Vector::from_polar
FromPolar(angle, radius) ==
    [x |-> FMul(radius, FCos(angle)), y |-> FMul(radius, FSin(angle))]

\* the end of line_sector_collision: arc is the result of
\* line_circle_collision, filtered by the angle to the direction
ChainCollisions(centre, direction, fov, circ, line1, line2) ==
    LET InFov(p) == FLe(FAbs(ShortestAngleDistance(FAngle(FVSub(p, centre)),
                                                   direction)),
                        FDiv(fov, F(2)))
        Chain(o) == IF o.some THEN <<o.point>> ELSE <<>>
    IN  [panics |-> circ.panics,
         points |-> IF line1.some /\ line2.some
                    THEN <<line1.point, line2.point>>
                    ELSE SelectSeq(circ.points, InFov)
                             \o Chain(line1) \o Chain(line2)]

\* line_sector_collision: a panic of line_circle_collision ends the call
LineSectorCollision(centre, radius, direction, fov, a, b) ==
    ChainCollisions(centre, direction, fov,
        LineCircleCollision(centre, radius, a, b),
        LineLineCollision(centre,
            FVAdd(centre, FromPolar(FSub(direction, FDiv(fov, F(2))), radius)),
            a, b),
        LineLineCollision(centre,
            FVAdd(centre, FromPolar(FAdd(direction, FDiv(fov, F(2))), radius)),
            a, b))

\* the end of SectorRange::line_intersection: `asserts` is the failure of
\* assert!(collisions.len() <= 2)
LineIntersectionOf(collisions) ==
    [called |-> TRUE,
     panics |-> collisions.panics,
     points |-> collisions.points,
     asserts |-> ~collisions.panics /\ Len(collisions.points) > 2,
     length |-> IF collisions.panics \/ Len(collisions.points) # 2 THEN F(0)
                ELSE FLength(FVSub(collisions.points[1],
                                   collisions.points[2]))]

\* SectorRange::line_intersection
SectorLineIntersection(range, a, b) ==
    LineIntersectionOf(LineSectorCollision(range.position, range.radius,
                                           range.direction, range.fov, a, b))

\* whole coordinates in and around a circle of radius 5 about (0, 0):
\* (5, 0) and (0, 5) lie on it, (3, 2) inside it, (7, -2) outside it
SectorCoords == { -5, -2, 0, 2, 3, 5, 7, 10 }

SectorPoints == { Vec(x, y) : x, y \in SectorCoords }

\* the fields of view: PI / 2, that of the towers of the game, and PI
Fovs == { Frac(1, 2), F(1) }

\* the directions, multiples of PI / 4
Directions == { Frac(k, 4) : k \in -3..4 }

\* sectors whose two edges lie along the axes, where from_polar is exact
AxisEdges(direction, fov) ==
    FMul(F(2), FSub(direction, FDiv(fov, F(2)))).d = 1

InitSector ==
    /\ PathOff /\ RouteOff /\ GameOff
    /\ circle = <<>> /\ segment2 = <<>> /\ angles = <<>>
    /\ \E direction \in Directions, fov \in Fovs :
          /\ AxisEdges(direction, fov)
          /\ sector = [position |-> FVec(0, 0), radius |-> F(5),
                       direction |-> direction, fov |-> fov]
    /\ \E a, b \in SectorPoints :
          /\ ExactSegment(a, b)
          /\ line = [a |-> ToF(a), b |-> ToF(b)]
    /\ collision = [called |-> FALSE, panics |-> FALSE, points |-> <<>>,
                    asserts |-> FALSE, length |-> F(0)]

\* SectorRange::line_intersection(a, b)
SectorLineIntersectionCall ==
    /\ ~collision.called
    /\ collision' = SectorLineIntersection(sector, line.a, line.b)
    /\ UNCHANGED <<circle, line, segment2, sector, angles>>
    /\ UNCHANGED <<pathVars, routeVars, gameVars>>

NextSector == SectorLineIntersectionCall

SpecSector == InitSector /\ [][NextSector]_vars

\* ------------------------------------------------ ui.rs: the drag buttons
\* Option<Vector> of DragButton::drag_start
NoDrag == <<>>

\* the menu of MainState::new: the two tower buttons and the Pause button
TowerMenu ==
    [position |-> <<0, 0>>, scale |-> 1,
     elements |-> << [kind |-> "DragButton", position |-> <<10, 100>>, size |-> <<100, 75>>],
                     [kind |-> "DragButton", position |-> <<10, 200>>, size |-> <<100, 75>>],
                     [kind |-> "Button", position |-> <<0, 0>>, size |-> <<100, 80>>] >>]

Elements == DOMAIN TowerMenu.elements

\* Button::local_hovers
ButtonLocalHovers(button, mouse) ==
    /\ button.position[1] <= mouse[1]
    /\ button.position[2] <= mouse[2]
    /\ button.position[1] + button.size[1] >= mouse[1]
    /\ button.position[2] + button.size[2] >= mouse[2]

\* f32::min and f32::max
Min(x, y) == IF x <= y THEN x ELSE y

Max(x, y) == IF x >= y THEN x ELSE y

\* the fold of Menu::local_bounds over the first i elements
RECURSIVE LocalBoundsFold(_, _)
LocalBoundsFold(menu, i) ==
    IF i = 0
    THEN <<menu.elements[1].position, menu.elements[1].position>>
    ELSE LET bounds == LocalBoundsFold(menu, i - 1)
             position == menu.elements[i].position
             size == menu.elements[i].size
         IN  << <<Min(bounds[1][1], position[1]), Min(bounds[1][2], position[2])>>,
                <<Max(bounds[2][1], position[1] + size[1]),
                  Max(bounds[2][2], position[2] + size[2])>> >>

\* Menu::local_bounds
MenuLocalBounds(menu) == LocalBoundsFold(menu, Len(menu.elements))

\* Menu::local_position
MenuLocalPosition(menu) == MenuLocalBounds(menu)[1]

\* Menu::local_size
MenuLocalSize(menu) ==
    <<MenuLocalBounds(menu)[2][1] - MenuLocalBounds(menu)[1][1],
      MenuLocalBounds(menu)[2][2] - MenuLocalBounds(menu)[1][2]>>

\* Menu::local_hovers
MenuLocalHovers(menu, position) ==
    /\ position[1] >= MenuLocalPosition(menu)[1]
    /\ position[2] >= MenuLocalPosition(menu)[2]
    /\ position[1] <= MenuLocalPosition(menu)[1] + MenuLocalSize(menu)[1]
    /\ position[2] <= MenuLocalPosition(menu)[2] + MenuLocalSize(menu)[2]

\* (position - local_position) / self.scale of the input_* of Menu
ToLocal(menu, position) ==
    <<(position[1] - menu.position[1]) \div menu.scale,
      (position[2] - menu.position[2]) \div menu.scale>>

\* a call of a callback of element i; start is the first argument of the
\* moved and released callbacks
Callback(i, name, from, position) ==
    [element |-> i, callback |-> name, start |-> from, position |-> position]

\* UIElement::input_start on element i: DragButton::input_start, nothing
\* for a Button
ElementInputStart(i, element, drag, position) ==
    IF element.kind = "DragButton" /\ ButtonLocalHovers(element, position)
    THEN [drag_start |-> position,
          callbacks |-> <<Callback(i, "start", NoDrag, position)>>]
    ELSE [drag_start |-> drag, callbacks |-> <<>>]

\* UIElement::input_moved on element i: DragButton::input_moved, nothing
\* for a Button
ElementInputMoved(i, element, drag, position) ==
    IF element.kind = "DragButton" /\ drag # NoDrag
    THEN [drag_start |-> drag,
          callbacks |-> <<Callback(i, "moved", drag, position)>>]
    ELSE [drag_start |-> drag, callbacks |-> <<>>]

\* DragButton::input_released leaving drag_start as it is
ElementInputReleasedKeepingDrag(i, element, drag, position) ==
    IF element.kind = "DragButton"
    THEN IF drag # NoDrag
         THEN [drag_start |-> drag,
               callbacks |-> <<Callback(i, "released", drag, position)>>]
         ELSE [drag_start |-> drag, callbacks |-> <<>>]
    ELSE IF ButtonLocalHovers(element, position)
         THEN [drag_start |-> drag,
               callbacks |-> <<Callback(i, "click", NoDrag, position)>>]
         ELSE [drag_start |-> drag, callbacks |-> <<>>]

\* UIElement::input_released on element i: DragButton::input_released and
\* Button::input_released
ElementInputReleased(i, element, drag, position) ==
    IF element.kind = "DragButton"
    THEN IF drag # NoDrag
         THEN [drag_start |-> NoDrag,
               callbacks |-> <<Callback(i, "released", drag, position)>>]
         ELSE [drag_start |-> drag, callbacks |-> <<>>]
    ELSE IF ButtonLocalHovers(element, position)
         THEN [drag_start |-> drag,
               callbacks |-> <<Callback(i, "click", NoDrag, position)>>]
         ELSE [drag_start |-> drag, callbacks |-> <<>>]

\* the callbacks of the elements 1..i, in the order of the for loop
RECURSIVE CallbacksOf(_, _)
CallbacksOf(outcomes, i) ==
    IF i = 0 THEN <<>> ELSE CallbacksOf(outcomes, i - 1) \o outcomes[i].callbacks

\* the mouse positions given to the menu: inside the first tower button, on
\* its far corner, left of it inside the menu, inside the second tower
\* button, on its near corner, on the Pause button, and over the play area
MousePositions ==
    { <<50, 120>>, <<110, 175>>, <<5, 150>>, <<50, 230>>, <<10, 200>>,
      <<50, 40>>, <<500, 500>> }

\* the drag the model keeps beside drag_start: an input_start has hit the
\* button of element i and no input_released has followed it
ActiveAfter(type, position) ==
    [i \in Elements |->
        IF type = "released" THEN FALSE
        ELSE IF /\ type = "start"
                /\ TowerMenu.elements[i].kind = "DragButton"
                /\ ButtonLocalHovers(TowerMenu.elements[i], position)
        THEN TRUE
        ELSE event.active[i]]

InitDrag ==
    /\ drag_start = [i \in Elements |-> NoDrag]
    /\ event = [type |-> "none", position |-> <<>>, callbacks |-> <<>>,
                active |-> [i \in Elements |-> FALSE]]
    /\ enemies = <<>> /\ towers = 0 /\ money = 0 /\ released = <<>>
    /\ PathOff /\ RouteOff /\ GeomOff /\ RoundOff

\* the menu after the elements have handled an event
Handled(type, position, outcomes) ==
    /\ drag_start' = [i \in Elements |-> outcomes[i].drag_start]
    /\ event' = [type |-> type, position |-> position,
                 callbacks |-> CallbacksOf(outcomes, Len(TowerMenu.elements)),
                 active |-> ActiveAfter(type, ToLocal(TowerMenu, position))]
    /\ UNCHANGED <<pathVars, routeVars, geomVars, roundVars>>
    /\ UNCHANGED <<enemies, towers, money, released>>

\* Menu::input_start
MenuInputStart ==
    \E position \in MousePositions :
        Handled("start", position,
                [i \in Elements |->
                    IF MenuLocalHovers(TowerMenu, position)
                    THEN ElementInputStart(i, TowerMenu.elements[i], drag_start[i],
                                           ToLocal(TowerMenu, position))
                    ELSE [drag_start |-> drag_start[i], callbacks |-> <<>>]])

\* Menu::input_moved
MenuInputMoved ==
    \E position \in MousePositions :
        Handled("moved", position,
                [i \in Elements |->
                    ElementInputMoved(i, TowerMenu.elements[i], drag_start[i],
                                      ToLocal(TowerMenu, position))])

\* Menu::input_released
MenuInputReleased ==
    \E position \in MousePositions :
        Handled("released", position,
                [i \in Elements |->
                    ElementInputReleased(i, TowerMenu.elements[i], drag_start[i],
                                         ToLocal(TowerMenu, position))])

NextDrag ==
    \/ MenuInputStart
    \/ MenuInputMoved
    \/ MenuInputReleased

SpecDrag == InitDrag /\ [][NextDrag]_vars

\* ------------- rounds.rs, enemy.rs, bullet.rs, tower.rs: a round of play
\* The positions of the enemies, towers and bullets are not kept.  What
\* the code computes from them is an input of the update: whether the range
\* of a tower finds a target, which enemies a bullet collides with, and
\* after how many updates a projectile has left the screen.  The web is not
\* part of these specifications: every enemy is spawned on a route of
\* length RouteLength.  Health and progress are exact fractions.
MaxRound == 1
RouteLength == 30
MaxFlight == 2

STARTING_LIVES == 5
LIGHTNING_LIFESPAN == 30

\* Round::time_between_enemies
TimeBetweenEnemies(round_number) == 120 \div (round_number + 1)

\* Round::new
RoundNew(round_number) ==
    [enemies_left |-> 7 * round_number + 10,
     round_number |-> round_number,
     time_to_next_shot |-> TimeBetweenEnemies(round_number),
     enemies |-> <<>>]

\* Round::complete
RoundComplete(r) == r.enemies_left = 0 /\ Len(r.enemies) = 0

\* TestEnemy::spawn: speed 1.0 + round_number * 0.3
TestEnemySpawn(length, round_number) ==
    [kind |-> "TestEnemy", progress |-> F(0), health |-> F(1),
     progress_increment |->
        FDiv(FAdd(F(1), FMul(F(round_number), Frac(3, 10))), length)]

\* FastEnemy::spawn: speed 1.1 + round_number * 0.35
FastEnemySpawn(length, round_number) ==
    [kind |-> "FastEnemy", progress |-> F(0), health |-> F(1),
     progress_increment |->
        FDiv(FAdd(Frac(11, 10), FMul(F(round_number), Frac(35, 100))), length)]

EnemyKinds == {"TestEnemy", "FastEnemy"}

\* Round::spawn_enemy without `self.enemies_left -= 1`
RoundSpawnEnemyNoCount(r, kind, length) ==
    IF r.enemies_left = 0 THEN r
    ELSE [r EXCEPT
            !.enemies = Append(@, IF kind = "TestEnemy"
                                  THEN TestEnemySpawn(length, r.round_number)
                                  ELSE FastEnemySpawn(length, r.round_number)),
            !.time_to_next_shot = TimeBetweenEnemies(r.round_number)]

\* Round::spawn_enemy; kind is the enemy that random_number < 0.7 selects
RoundSpawnEnemy(r, kind, length) ==
    IF r.enemies_left = 0 THEN r
    ELSE [r EXCEPT
            !.enemies = Append(@, IF kind = "TestEnemy"
                                  THEN TestEnemySpawn(length, r.round_number)
                                  ELSE FastEnemySpawn(length, r.round_number)),
            !.enemies_left = @ - 1,
            !.time_to_next_shot = TimeBetweenEnemies(r.round_number)]

\* EnemyTrait::update of TestEnemy and FastEnemy: the enemy after the step;
\* it is alive while progress < 1.0
EnemyUpdate(enemy) ==
    [enemy EXCEPT !.progress = FAdd(@, enemy.progress_increment)]

\* the while loop of Enemy::update_all, with i enemies left to pop
RECURSIVE UpdateAllLoop(_, _, _)
UpdateAllLoop(es, i, new_enemies) ==
    IF i = 0 THEN new_enemies
    ELSE UpdateAllLoop(es, i - 1,
                       IF FLt(EnemyUpdate(es[i]).progress, F(1))
                       THEN Append(new_enemies, EnemyUpdate(es[i]))
                       ELSE new_enemies)

\* Enemy::update_all
UpdateAll(es) == UpdateAllLoop(es, Len(es), <<>>)

\* EnemyTrait::damage: FastEnemy takes dmg / 1.3; the enemy is alive while
\* health > 0.0
EnemyDamage(enemy, dmg) ==
    [enemy EXCEPT !.health =
        FMax(F(0), FSub(@, IF enemy.kind = "FastEnemy"
                           THEN FDiv(dmg, Frac(13, 10))
                           ELSE dmg))]

EnemyAlive(enemy) == FGt(enemy.health, F(0))

\* the while loop of Projectile::update pushing a damaged enemy that is
\* still alive twice
RECURSIVE ProjectileLoopPushingTwice(_, _, _, _, _)
ProjectileLoopPushingTwice(es, i, collides, alive, new_enemies) ==
    IF i = 0 THEN [alive |-> alive, enemies |-> new_enemies]
    ELSE IF alive /\ i \in collides
    THEN ProjectileLoopPushingTwice(es, i - 1, collides, FALSE,
                        IF EnemyAlive(EnemyDamage(es[i], Frac(2, 5)))
                        THEN new_enemies \o <<EnemyDamage(es[i], Frac(2, 5)),
                                              EnemyDamage(es[i], Frac(2, 5))>>
                        ELSE new_enemies)
    ELSE ProjectileLoopPushingTwice(es, i - 1, collides, alive,
                                    Append(new_enemies, es[i]))

\* the while loop of Projectile::update, with i enemies left to pop;
\* collides holds the indices of the enemies the projectile collides with
RECURSIVE ProjectileLoop(_, _, _, _, _)
ProjectileLoop(es, i, collides, alive, new_enemies) ==
    IF i = 0 THEN [alive |-> alive, enemies |-> new_enemies]
    ELSE IF alive /\ i \in collides
    THEN ProjectileLoop(es, i - 1, collides, FALSE,
                        IF EnemyAlive(EnemyDamage(es[i], Frac(2, 5)))
                        THEN Append(new_enemies, EnemyDamage(es[i], Frac(2, 5)))
                        ELSE new_enemies)
    ELSE ProjectileLoop(es, i - 1, collides, alive, Append(new_enemies, es[i]))

\* the end of Projectile::update: the projectile is dead after a hit and
\* when its position has left the bounds, flight updates after its spawn
ProjectileEnd(bullet, loop) ==
    [alive |-> loop.alive /\ bullet.flight > 1,
     bullet |-> [bullet EXCEPT !.flight = @ - 1],
     enemies |-> loop.enemies]

\* Projectile::update
ProjectileUpdate(bullet, es, collides) ==
    ProjectileEnd(bullet, ProjectileLoop(es, Len(es), collides, TRUE, <<>>))

\* the while loop of Lightning::update
RECURSIVE LightningLoop(_, _, _, _)
LightningLoop(es, i, collides, new_enemies) ==
    IF i = 0 THEN new_enemies
    ELSE IF i \in collides
    THEN LightningLoop(es, i - 1, collides,
                       IF EnemyAlive(EnemyDamage(es[i], Frac(1, 5)))
                       THEN Append(new_enemies, EnemyDamage(es[i], Frac(1, 5)))
                       ELSE new_enemies)
    ELSE LightningLoop(es, i - 1, collides, Append(new_enemies, es[i]))

\* Lightning::update
LightningUpdate(bullet, es, collides) ==
    IF bullet.life = 0 THEN [alive |-> FALSE, bullet |-> bullet, enemies |-> es]
    ELSE [alive |-> TRUE,
          bullet |-> [bullet EXCEPT !.life = @ - 1],
          enemies |-> LightningLoop(es, Len(es), collides, <<>>)]

\* Bullet::update
BulletUpdate(bullet, es, collides) ==
    IF bullet.kind = "Projectile" THEN ProjectileUpdate(bullet, es, collides)
    ELSE LightningUpdate(bullet, es, collides)

\* one turn of the while loop of Bullet::update_all
BulletPopped(new_bullets, outcome) ==
    [bullets |-> IF outcome.alive THEN Append(new_bullets, outcome.bullet)
                 ELSE new_bullets,
     enemies |-> outcome.enemies]

\* the while loop of Bullet::update_all, with j bullets left to pop;
\* collisions[j] holds the collisions of bullet j
RECURSIVE BulletLoop(_, _, _, _)
BulletLoop(bullets, j, collisions, acc) ==
    IF j = 0 THEN acc
    ELSE BulletLoop(bullets, j - 1, collisions,
                    BulletPopped(acc.bullets,
                                 BulletUpdate(bullets[j], acc.enemies, collisions[j])))

\* Bullet::update_all
BulletUpdateAll(bullets, es, collisions) ==
    BulletLoop(bullets, Len(bullets), collisions, [bullets |-> <<>>, enemies |-> es])

\* Tower::cooldown of SectorTower and TestTower
Cooldown(kind) == IF kind = "SectorTower" THEN 20 ELSE 60

\* SectorTower::spawn, TestTower::spawn
TowerSpawn(kind) == [kind |-> kind, time_to_next_shot |-> Cooldown(kind), bullets |-> <<>>]

\* Projectile::spawn for a SectorTower, Lightning::spawn for a TestTower
BulletSpawn(kind, flight) ==
    IF kind = "SectorTower" THEN [kind |-> "Projectile", flight |-> flight]
    ELSE [kind |-> "Lightning", life |-> LIGHTNING_LIFESPAN]

\* the tower shoots in this update: its time is up and get_target is Some
Shoots(tower, es, sees) == tower.time_to_next_shot = 0 /\ sees /\ es # <<>>

\* Tower::update of SectorTower and TestTower; sees tells whether
\* range.get_target finds one of the enemies
TowerShot(tower, es, sees, flight) ==
    [tower EXCEPT
        !.bullets = IF Shoots(tower, es, sees)
                    THEN Append(@, BulletSpawn(tower.kind, flight)) ELSE @,
        !.time_to_next_shot = IF @ = 0
                              THEN IF Shoots(tower, es, sees)
                                   THEN Cooldown(tower.kind) ELSE 0
                              ELSE @ - 1]

TowerEnd(tower, outcome) ==
    [tower |-> [tower EXCEPT !.bullets = outcome.bullets], enemies |-> outcome.enemies]

TowerUpdateShot(tower, es, collisions) ==
    TowerEnd(tower, BulletUpdateAll(tower.bullets, es, collisions))

TowerUpdate(tower, es, sees, flight, collisions) ==
    TowerUpdateShot(TowerShot(tower, es, sees, flight), es, collisions)

TowersStep(acc, outcome) ==
    [towers |-> Append(acc.towers, outcome.tower), enemies |-> outcome.enemies]

\* `for tower in towers.iter_mut()` of Round::update, from tower t on
RECURSIVE TowersLoop(_, _, _, _)
TowersLoop(ts, t, input, acc) ==
    IF t > Len(ts) THEN acc
    ELSE TowersLoop(ts, t + 1, input,
                    TowersStep(acc, TowerUpdate(ts[t], acc.enemies, input.sees[t],
                                                input.flight, input.collisions[t])))

\* the end of Round::update: the counts and the pair it returns
RoundUpdateEnd(spawned_round, moved, shot) ==
    [round |-> [spawned_round EXCEPT !.enemies = shot.enemies],
     towers |-> shot.towers,
     initial_enemies |-> Len(spawned_round.enemies),
     enemies_after_movement |-> Len(moved),
     enemies_after_shooting |-> Len(shot.enemies),
     lives_lost |-> Len(spawned_round.enemies) - Len(moved),
     enemies_killed |-> Len(moved) - Len(shot.enemies)]

RoundUpdateMoved(spawned_round, moved, ts, input) ==
    RoundUpdateEnd(spawned_round, moved,
                   TowersLoop(ts, 1, input, [towers |-> <<>>, enemies |-> moved]))

RoundUpdateSpawned(spawned_round, ts, input) ==
    RoundUpdateMoved(spawned_round, UpdateAll(spawned_round.enemies), ts, input)

\* self.time_to_next_shot.saturating_sub(1)
TimeStep(r) ==
    [r EXCEPT !.time_to_next_shot = IF @ = 0 THEN 0 ELSE @ - 1]

\* Round::update
RoundUpdate(r, ts, input) ==
    RoundUpdateSpawned(IF TimeStep(r).time_to_next_shot = 0
                       THEN RoundSpawnEnemy(TimeStep(r), input.kind, F(RouteLength))
                       ELSE TimeStep(r),
                       ts, input)

\* this update spawns an enemy
SpawnDue(r) == TimeStep(r).time_to_next_shot = 0 /\ r.enemies_left > 0

\* the most enemies a tower or a bullet meets in this update
EnemiesMet(r) == Len(r.enemies) + IF SpawnDue(r) THEN 1 ELSE 0

\* the most bullets a tower among the first t updates in this update
RECURSIVE BulletsMet(_, _, _)
BulletsMet(r, ts, t) ==
    IF t = 0 THEN 0
    ELSE Max(BulletsMet(r, ts, t - 1),
             Len(ts[t].bullets)
                + IF ts[t].time_to_next_shot = 0 /\ EnemiesMet(r) > 0 THEN 1 ELSE 0)

\* the inputs of an update that make a difference to it: the kind of the
\* enemy when one is spawned, the sight of a target for the towers whose
\* time is up (one of sights), the flight of a projectile when a SectorTower
\* may shoot, and the collisions of each bullet with the enemies it meets
UpdateInputs(r, ts, sights) ==
    { input \in
        [kind : IF SpawnDue(r) THEN EnemyKinds ELSE {"TestEnemy"},
         sees : [1..Len(ts) -> BOOLEAN],
         flight : IF \E t \in 1..Len(ts) : ts[t].kind = "SectorTower"
                                            /\ ts[t].time_to_next_shot = 0
                                            /\ EnemiesMet(r) > 0
                  THEN 1..MaxFlight ELSE {1},
         collisions : [1..Len(ts) -> [1..BulletsMet(r, ts, Len(ts)) -> SUBSET (1..EnemiesMet(r))]]] :
        \A t \in 1..Len(ts) :
            /\ input.sees[t] \in IF ts[t].time_to_next_shot = 0 /\ EnemiesMet(r) > 0
                                 THEN sights ELSE {FALSE}
            /\ \A j \in 1..BulletsMet(r, ts, Len(ts)) :
                  j > Len(ts[t].bullets) + (IF input.sees[t] THEN 1 ELSE 0)
                      => input.collisions[t][j] = {} }

\* before the first update
NotUpdated ==
    [round_number |-> 0, spawn |-> 0, spawned |-> 0,
     initial_enemies |-> 0, enemies_after_movement |-> 0,
     enemies_after_shooting |-> 0, lives_lost |-> 0,
     enemies_killed |-> 0, next |-> FALSE, reset |-> FALSE]

\* GameState::new without the path
InitRound ==
    /\ round = RoundNew(1)
    /\ towers = <<>>
    /\ lives = STARTING_LIVES
    /\ score = 0
    /\ money = StartingMoney
    /\ mode = "MainMenu"
    /\ spawned = 0
    /\ updated = NotUpdated
    /\ enemies = <<>> /\ released = <<>>
    /\ PathOff /\ RouteOff /\ GeomOff /\ DragOff

\* the callback of the Play button of the main menu
PressPlay ==
    /\ mode = "MainMenu"
    /\ mode' = "Play"
    /\ UNCHANGED <<round, lives, score, updated, spawned, towers, money>>
    /\ UNCHANGED <<pathVars, routeVars, geomVars, dragVars, enemies, released>>

\* the release callback of a tower button over the play area with enough
\* money, taken before the first update of a round; the web is not part of
\* this specification
PlaceTowerInPlay ==
    /\ mode = "Play"
    /\ round = RoundNew(round.round_number)
    /\ Len(towers) < MaxTowers
    /\ \E tower \in TowerKinds :
         /\ Price(tower) <= money
         /\ money' = money - Price(tower)
         /\ towers' = Append(towers, TowerSpawn(tower))
    /\ UNCHANGED <<round, lives, score, mode, updated, spawned>>
    /\ UNCHANGED <<pathVars, routeVars, geomVars, dragVars, enemies, released>>

\* MainState::update in GameMode::Play after self.state.round.update
\* returned u: lives, score and money, then the new game at lives == 0 or
\* Round::next when the round is complete.  updated records what the call
\* returned and did, spawned counts the enemies pushed in the round.
Updated(u) ==
    /\ updated' = [round_number |-> round.round_number,
                   spawn |-> u.initial_enemies - Len(round.enemies),
                   spawned |-> spawned + u.initial_enemies - Len(round.enemies),
                   initial_enemies |-> u.initial_enemies,
                   enemies_after_movement |-> u.enemies_after_movement,
                   enemies_after_shooting |-> u.enemies_after_shooting,
                   lives_lost |-> u.lives_lost,
                   enemies_killed |-> u.enemies_killed,
                   next |-> lives > u.lives_lost /\ RoundComplete(u.round),
                   reset |-> lives <= u.lives_lost]
    /\ IF Max(lives - u.lives_lost, 0) = 0
       THEN /\ round' = RoundNew(1)
            /\ towers' = <<>>
            /\ lives' = STARTING_LIVES
            /\ score' = 0
            /\ money' = StartingMoney
            /\ mode' = "MainMenu"
            /\ spawned' = 0
       ELSE /\ lives' = lives - u.lives_lost
            /\ score' = score + u.enemies_killed
            /\ money' = money + u.enemies_killed * 2
            /\ towers' = u.towers
            /\ UNCHANGED mode
            /\ IF RoundComplete(u.round)
               THEN /\ round' = RoundNew(u.round.round_number + 1)
                    /\ spawned' = 0
               ELSE /\ round' = u.round
                    /\ spawned' = spawned + u.initial_enemies - Len(round.enemies)
    /\ UNCHANGED <<pathVars, routeVars, geomVars, dragVars, enemies, released>>

\* MainState::update in GameMode::Play, the towers seeing as sights allows
UpdateWith(sights) ==
    /\ mode = "Play"
    /\ \E input \in UpdateInputs(round, towers, sights) :
         Updated(RoundUpdate(round, towers, input))

\* MainState::update in GameMode::Play up to round MaxRound, with every
\* tower standing where its range covers the route
Update ==
    /\ round.round_number <= MaxRound
    /\ UpdateWith({TRUE})

\* the callback of the Pause button of the menu
PressPause ==
    /\ mode = "Play"
    /\ mode' = "MainMenu"
    /\ UNCHANGED <<round, lives, score, updated, spawned, towers, money>>
    /\ UNCHANGED <<pathVars, routeVars, geomVars, dragVars, enemies, released>>

NextRound ==
    \/ PressPlay
    \/ PressPause
    \/ PlaceTowerInPlay
    \/ Update

SpecRound == InitRound /\ [][NextRound]_vars

\* --------------------------------------- rounds.rs: one Round::update
\* The game in the middle of round 1 on the route of GameState::new, whose
\* length is 600 to the nearest unit: the enemies are one update or 61
\* updates away from the end of the route, whole or nearly dead.
GameRouteLength == 600

\* the number of updates an enemy of the kind survives on the route
LastUpdate(kind) ==
    IF kind = "TestEnemy" THEN (GameRouteLength * 10 - 1) \div 13
    ELSE (GameRouteLength * 100 - 1) \div 145

\* an enemy of round 1 after its k-th update and hits hits of a Lightning
EnemyAfter(kind, k, hits) ==
    LET enemy == IF kind = "TestEnemy" THEN TestEnemySpawn(F(GameRouteLength), 1)
                 ELSE FastEnemySpawn(F(GameRouteLength), 1)
    IN  [enemy EXCEPT
            !.progress = FMul(F(k), enemy.progress_increment),
            !.health = FSub(F(1), FMul(F(hits), IF kind = "TestEnemy" THEN Frac(1, 5)
                                                 ELSE Frac(2, 13)))]

MidRoundEnemies ==
    { EnemyAfter("TestEnemy", LastUpdate("TestEnemy"), 0),
      EnemyAfter("TestEnemy", LastUpdate("TestEnemy") - 60, 0),
      EnemyAfter("TestEnemy", LastUpdate("TestEnemy") - 60, 4),
      EnemyAfter("FastEnemy", LastUpdate("FastEnemy"), 6) }

MaxAlive == 2

\* the towers in the middle of a round: just placed, ready to shoot, with a
\* Lightning at the end of its life, and with a Projectile shot in the
\* update before
MidRoundTowers ==
    { <<>>,
      <<TowerSpawn("TestTower")>>,
      <<[TowerSpawn("TestTower") EXCEPT !.time_to_next_shot = 0]>>,
      <<[TowerSpawn("TestTower") EXCEPT
            !.time_to_next_shot = @ - (LIGHTNING_LIFESPAN - 2),
            !.bullets = <<[BulletSpawn("TestTower", 1) EXCEPT !.life = 1]>>]>>,
      <<[TowerSpawn("SectorTower") EXCEPT !.time_to_next_shot = 0],
        [TowerSpawn("SectorTower") EXCEPT !.bullets = <<BulletSpawn("SectorTower", 1)>>]>> }

RECURSIVE PriceOf(_)
PriceOf(ts) == IF ts = <<>> THEN 0 ELSE Price(Head(ts).kind) + PriceOf(Tail(ts))

\* a game in round 1 with left enemies still to spawn, of which the others
\* have passed, been killed or are alive
InitUpdate ==
    /\ \E left \in {0, 1}, time \in {1, 2}, count \in 0..MaxAlive :
         /\ round \in [enemies_left : {left}, round_number : {1},
                       time_to_next_shot : {IF left = 0 THEN 0 ELSE time},
                       enemies : [1..count -> MidRoundEnemies]]
         /\ spawned = RoundNew(1).enemies_left - left
    /\ towers \in MidRoundTowers
    /\ lives \in {1, STARTING_LIVES}
    /\ score = spawned - (STARTING_LIVES - lives) - Len(round.enemies)
    /\ money = StartingMoney + 2 * score - PriceOf(towers)
    /\ mode = "Play"
    /\ updated = NotUpdated
    /\ enemies = <<>> /\ released = <<>>
    /\ PathOff /\ RouteOff /\ GeomOff /\ DragOff

\* one call of MainState::update on the game drawn
UpdateOnce ==
    /\ updated = NotUpdated
    /\ UpdateWith(BOOLEAN)

NextUpdate == UpdateOnce

SpecUpdate == InitUpdate /\ [][NextUpdate]_vars

\* ------------------------------------------------------------ properties
N == Len(positions)

ConnectionsInRange ==
    \A i \in 1..Len(conns_in) : conns_in[i][1] < N /\ conns_in[i][2] < N

EndpointsInRange == start < N /\ end < N

\* Web::new has panicked or returned
WebNewEnded == result \in {"panic", "Ok", "InvalidEndpoints", "InvalidRoute"}

\* Web::new has been entered
WebNewCalled == WebNewEnded \/ pc = "web_new"

RECURSIVE ReachFrom(_, _)
ReachFrom(edges, S) ==
    LET T == S \cup { e[2] : e \in { d \in edges : d[1] \in S } }
    IN  IF T = S THEN S ELSE ReachFrom(edges, T)

\* a directed path start ->* end over the input connections
PathExists ==
    end \in ReachFrom({ conns_in[i] : i \in 1..Len(conns_in) }, {start})

Infinity == 1000000 * Scale

SetMin(S) == CHOOSE x \in S : \A y \in S : x <= y

\* least weight of a directed path s ->* v of at most k connections
RECURSIVE Dist(_, _, _)
Dist(cs, s, k) ==
    IF k = 0 THEN [v \in 0..(N - 1) |-> IF v = s THEN 0 ELSE Infinity]
    ELSE LET d == Dist(cs, s, k - 1)
         IN  [v \in 0..(N - 1) |->
                SetMin({d[v]} \cup { d[cs[i].start] + cs[i].weight :
                                       i \in { j \in 1..Len(cs) : cs[j].end = v } })]

MinCost(cs) == Dist(cs, start, N)[end]

ConnectionWeight(cs, a, b) ==
    LET i == FindConnection(cs, a, b, 1)
    IN  IF i = None THEN Infinity ELSE cs[i].weight

RECURSIVE RouteWeight(_, _)
RouteWeight(route, cs) ==
    IF Len(route) < 2 THEN 0
    ELSE ConnectionWeight(cs, route[1], route[2]) + RouteWeight(Tail(route), cs)

AllEuclidean ==
    \A i \in 1..Len(connections) :
        connections[i].weight =
            Length(VSub(nodes[connections[i].start].position,
                        nodes[connections[i].end].position))

Range(s) == { s[i] : i \in 1..Len(s) }

NoDuplicates(s) == \A i, j \in 1..Len(s) : s[i] = s[j] => i = j

\* C1: Web::new on in-range connections and endpoints with no directed path
\* from start to end ends by returning Err(InvalidRoute), never by a panic.
C1_NoRouteIsAnError ==
    (WebNewEnded /\ ConnectionsInRange /\ EndpointsInRange /\ ~PathExists)
        => result = "InvalidRoute"

\* C2: Web::new on a connection with an index >= positions.len() ends by
\* returning an Err value, never by a panic.
C2_BadConnectionIsAnError ==
    (WebNewEnded /\ ~ConnectionsInRange)
        => result \in {"InvalidRoute", "InvalidEndpoints"}

\* C3: with every connection index in range, Web::new returns
\* Err(InvalidEndpoints) exactly when start or end is >= positions.len(),
\* and then no search has been run (also for an empty position list).
C3_InvalidEndpoints ==
    (WebNewCalled /\ ConnectionsInRange)
        => /\ (result = "InvalidEndpoints") <=> (start >= N \/ end >= N)
           /\ (start >= N \/ end >= N)
                => /\ pc = "returned"
                   /\ open = <<>> /\ closed = <<>>
                   /\ lastCall = "none"

C3_Witness ==
    /\ positions = <<>>
    /\ ConnectionsInRange
    /\ result = "InvalidEndpoints"

\* C4: Pathfinder::new returns None exactly when the position list is empty
\* or a connection has an index >= positions.len(); otherwise it returns Some
\* with one node per position and no best route.
C4_PathfinderNew ==
    /\ result \in {"Some", "None"}
         => (result = "None")
              <=> \/ N = 0
                  \/ \E i \in 1..Len(conns_in) :
                        conns_in[i][1] >= N \/ conns_in[i][2] >= N
    /\ (result = "Some" /\ lastCall = "new")
         => /\ DOMAIN nodes = 0..(N - 1)
            /\ \A i \in 0..(N - 1) : nodes[i].position = positions[i + 1]
            /\ best_route = NoRoute

C4_Witness ==
    /\ result = "None"
    /\ N > 0
    /\ start < N /\ end < N

\* C5: on a valid graph with a directed path from start to end every search,
\* the first and every later one, pops end before the open list runs empty:
\* no search panics or hangs, each iteration closes a node not closed before,
\* and the open list is not empty while end is unclosed.
C5_SearchTerminates ==
    (N > 0 /\ ConnectionsInRange /\ EndpointsInRange /\ PathExists)
        => /\ pc \notin {"panicked", "hung"}
           /\ Searching
                => /\ open # <<>>
                   /\ ~Contains(closed, end)
                   /\ NoDuplicates(closed)
                   /\ Len(closed) < N

C5_Witness ==
    /\ pc = "idle"
    /\ lastCall = "pathfind"
    /\ prevRoute # NoRoute
    /\ ~AllEuclidean
    /\ Len(best_route) >= 3

\* C6: a best route is a directed path of the graph: it starts at the
\* position of start, ends at the position of end, and each consecutive pair
\* of points is joined by a connection of the list.
C6_RouteIsPath ==
    best_route # NoRoute
        => LET pts == WebRoute.points
           IN  /\ pts[1] = positions[start + 1]
               /\ pts[Len(pts)] = positions[end + 1]
               /\ \A i \in 1..(Len(pts) - 1) :
                     \E j \in 1..Len(connections) :
                        /\ nodes[connections[j].start].position = pts[i]
                        /\ nodes[connections[j].end].position = pts[i + 1]

C6_Witness ==
    /\ best_route # NoRoute
    /\ Len(best_route) >= 4

\* C7: with every weight the Euclidean distance of its endpoints the best
\* route has the least total weight of all directed paths from start to end;
\* on the square connected as a cycle, from 0 to 2, it has 3 points and
\* weight 20.
SquareCase ==
    /\ positions = SubSeq(Points, 1, 4)
    /\ conns_in = SquareCycle
    /\ start = 0
    /\ end = 2

C7_EuclideanOptimal ==
    (best_route # NoRoute /\ AllEuclidean)
        => /\ RouteWeight(best_route, connections) = MinCost(connections)
           /\ SquareCase
                => /\ Len(best_route) = 3
                   /\ RouteWeight(best_route, connections) = 20 * Scale

C7_Witness ==
    /\ SquareCase
    /\ best_route # NoRoute
    /\ AllEuclidean
    /\ prevRoute # NoRoute

\* C8: after recalculate_weights with a tower closure (distance plus a
\* non-negative penalty) and pathfind, the best route has the least total
\* weight of all directed paths from start to end under the new weights.
C8_OptimalAfterRecalculate ==
    (best_route # NoRoute /\ lastCall = "pathfind" /\ prevConnections # <<>>)
        => RouteWeight(best_route, connections) = MinCost(connections)

\* C9: if recalculate_weights lowers no weight and raises the weight of a
\* connection of the best route, the route found next weighs no less than
\* the old one did.
WeightsRaised ==
    /\ Len(prevConnections) = Len(connections)
    /\ \A i \in 1..Len(connections) :
          connections[i].weight >= prevConnections[i].weight
    /\ \E i \in 1..(Len(prevRoute) - 1) :
          ConnectionWeight(connections, prevRoute[i], prevRoute[i + 1])
              > ConnectionWeight(prevConnections, prevRoute[i], prevRoute[i + 1])

C9_Monotone ==
    (best_route # NoRoute /\ prevRoute # NoRoute /\ WeightsRaised)
        => RouteWeight(best_route, connections)
              >= RouteWeight(prevRoute, prevConnections)

\* C10: once a pathfinder exists, best_route() is Some exactly when the last
\* completed call is a pathfind; after new and after recalculate_weights it
\* is None, and Web::route() panics, until pathfind has run again.
C10_RouteCached ==
    lastCall # "none"
        => /\ (best_route # NoRoute) <=> (lastCall = "pathfind")
           /\ WebRoute.panics <=> (lastCall \in {"new", "recalculate_weights"})

C10_Witness ==
    /\ lastCall = "recalculate_weights"
    /\ prevRoute # NoRoute
    /\ WebRoute.panics
    /\ pc = "pathfind"

\* the (start, end) pairs of a connection list, in order
ConnectionPairs(cs) == [i \in 1..Len(cs) |-> <<cs[i].start, cs[i].end>>]

\* index of the first occurrence of x in s
FirstIndex(s, x) ==
    CHOOSE i \in 1..Len(s) : s[i] = x /\ \A j \in 1..(i - 1) : s[j] # x

\* C11: recalculate_weights(w) sets the weight of every connection to w of
\* the positions of its start and end nodes, and leaves the number and order
\* of the connections, each connection's start and end, the node positions
\* and so the set of nodes reachable from any node unchanged.
C11_RecalculateWeights ==
    [][(pc = "idle" /\ pc' = "idle" /\ lastCall' = "recalculate_weights")
        => /\ Len(connections') = Len(connections)
           /\ ConnectionPairs(connections') = ConnectionPairs(connections)
           /\ \A i \in 0..(N - 1) :
                 /\ nodes'[i].position = nodes[i].position
                 /\ nodes'[i].position = positions[i + 1]
                 /\ ReachFrom(Range(ConnectionPairs(connections')), {i})
                      = ReachFrom(Range(ConnectionPairs(connections)), {i})
           /\ \E k \in 0..MaxTowers :
                 \A i \in 1..Len(connections') :
                    connections'[i].weight
                       = WeightFn(k, positions[connections[i].start + 1],
                                     positions[connections[i].end + 1])]_vars

C11_Witness ==
    /\ lastCall = "recalculate_weights"
    /\ Len(connections) >= 3
    /\ ~AllEuclidean
    /\ connections # prevConnections

\* C12: the pathfinder holds at most one connection for each ordered
\* (start, end) pair after Pathfinder::new and after every later call:
\* duplicates in the input collapse to their first occurrence, in input
\* order, and (a, b) and (b, a) are kept as two connections.
C12_OneConnectionPerPair ==
    lastCall # "none"
        => LET ps == ConnectionPairs(connections)
           IN  /\ NoDuplicates(ps)
               /\ Range(ps) = Range(conns_in)
               /\ \A i, j \in 1..Len(ps) :
                     i < j => FirstIndex(conns_in, ps[i]) < FirstIndex(conns_in, ps[j])

C12_Witness ==
    /\ conns_in = Repeated
    /\ lastCall = "recalculate_weights"
    /\ Len(connections) < Len(conns_in)
    /\ \E i, j \in 1..Len(connections) :
          /\ connections[i].start = connections[j].end
          /\ connections[i].end = connections[j].start
          /\ connections[i].start # connections[i].end

\* the point at arc length s along the polyline ps, measured from ps[i]
\* with cum the arc length up to ps[i]
RECURSIVE PointAtArc(_, _, _, _)
PointAtArc(ps, s, i, cum) ==
    IF i >= Len(ps) THEN ps[Len(ps)]
    ELSE LET len == FLength(FVSub(ps[i + 1], ps[i]))
         IN  IF FGt(len, F(0)) /\ FGe(FAdd(cum, len), s)
             THEN FVAdd(ps[i], FVMul(FVSub(ps[i + 1], ps[i]),
                                     FDiv(FSub(s, cum), len)))
             ELSE PointAtArc(ps, s, i + 1, FAdd(cum, len))

\* C14: for every Route with at least 2 points, coincident consecutive
\* points included, get_position(p) is the first point for p <= 0 and the
\* last point for p >= 1; it never indexes out of bounds and never divides
\* by zero, so that the position is a point of finite coordinates.
C14_GetPositionClamped ==
    Len(r_positions) >= 2
        => /\ r_pc # "panicked"
           /\ r_pc = "queried"
                => /\ ~FVIsNaN(r_position)
                   /\ FLe(r_progress, F(0)) => r_position = r_route.points[1]
                   /\ FGe(r_progress, F(1))
                        => r_position = r_route.points[Len(r_route.points)]

\* C15: for every Route and 0 <= p <= 1 the arc length from the first point
\* to get_position(p) is p times the total length: get_position(p) is the
\* point at arc length p * length along the route (so that the arc length
\* at p is at most the arc length at q for p <= q).
C15_ArcLength ==
    (r_pc = "queried" /\ Len(r_positions) >= 2
       /\ FLe(F(0), r_progress) /\ FLe(r_progress, F(1)))
        => r_position = PointAtArc(r_route.points,
                                   FMul(r_progress, r_route.length), 1, F(0))

\* C16: Route::from_positions_unchecked panics when it is given fewer than
\* 2 points.
C16_UncheckedPanics ==
    (r_pc # "start" /\ r_pc # "off" /\ Len(r_positions) < 2)
        => r_pc = "panicked" /\ r_route = <<>>

\* C17: every route returned by Web::route() after a successful Web::new,
\* and after later recalculate_weights + pathfind calls, has at least 2
\* points and a total length greater than 0, for every accepted start and
\* end, start == end included, so that Route::from_positions_unchecked in
\* spawn_enemy builds a Route of positive length.
C17_RouteNonDegenerate ==
    (result = "Ok" /\ ~WebRoute.panics)
        => LET r == FromPositionsUnchecked(ToFs(WebRoute.points))
           IN  /\ Len(r.points) >= 2
               /\ FGt(r.length, F(0))

\* whether p is strictly inside the circle
StrictlyInside(p) ==
    FLt(FSqrLength(FVSub(p, circle.centre)), FMul(circle.radius, circle.radius))

\* the squared distance from the centre of the circle to the nearest point
\* of the segment a-b
NearestSqrDistance(a, b) ==
    LET d == FVSub(b, a)
        w == FVSub(circle.centre, a)
    IN  IF a = b THEN FSqrLength(w)
        ELSE LET t == FClamp(FDiv(FAdd(FMul(w.x, d.x), FMul(w.y, d.y)),
                                  FSqrLength(d)), F(0), F(1))
             IN  FSqrLength(FVSub(FVAdd(a, FVMul(d, t)), circle.centre))

\* no point of the segment is inside or on the circle
SegmentOutside ==
    FGt(NearestSqrDistance(line.a, line.b), FMul(circle.radius, circle.radius))

\* C18: line_circle_collision never panics and never produces more than 2
\* points (its assert never fails), whatever the segment and the circle:
\* endpoints on the boundary, an endpoint inside with the segment crossing
\* the boundary, vertical segments.
C18_AtMostTwoPoints ==
    collision.called => ~collision.panics /\ Len(collision.points) <= 2

\* C19: line_circle_collision returns None for every segment whose two
\* endpoints are strictly inside the circle.
C19_EnclosedIsNone ==
    (collision.called /\ StrictlyInside(line.a) /\ StrictlyInside(line.b))
        => ~collision.panics /\ collision.points = <<>>

\* C20: line_circle_collision returns None for every segment that has no
\* point inside or on the circle, in every orientation, the vertical
\* segment whose infinite extension crosses the circle included.
C20_OutsideIsNone ==
    (collision.called /\ SegmentOutside)
        => ~collision.panics /\ collision.points = <<>>

\* C13: the Route handed to an enemy at spawn is a copy of the web's route:
\* no step, tower placement (recalculate_weights + pathfind) included,
\* changes the route points or the length of an enemy that was already
\* spawned, and an enemy spawned later follows the route the web has then.
C13_EnemyRouteIsACopy ==
    [][/\ Len(enemies') >= Len(enemies)
       /\ \A i \in 1..Len(enemies) :
             /\ enemies'[i].path.points = enemies[i].path.points
             /\ enemies'[i].path.length = enemies[i].path.length
       /\ Len(enemies') > Len(enemies)
            => /\ Len(enemies') = Len(enemies) + 1
               /\ enemies'[Len(enemies')].path.points = ToFs(WebRoute.points)
               /\ enemies'[Len(enemies')].path.length
                    = FoldLength(ToFs(WebRoute.points), 2, F(0))]_vars

\* two enemies spawned before and after tower placements that moved the
\* route of the web
C13_Witness ==
    /\ Len(enemies) = 2
    /\ towers >= 1
    /\ pc = "idle"
    /\ enemies[1].path.points # enemies[2].path.points
    /\ enemies[2].path.points = ToFs(WebRoute.points)

\* position in op of the first node of minimal f_cost
FirstMinIndex(ns, op) ==
    CHOOSE i \in 1..Len(op) :
        /\ \A j \in 1..Len(op) : FCost(ns[op[i]]) <= FCost(ns[op[j]])
        /\ \A j \in 1..(i - 1) : FCost(ns[op[j]]) > FCost(ns[op[i]])

\* C26: at each step of pathfind the node moved from the open list to the
\* closed list is, among the nodes of minimal f_cost, the one that occurs
\* first in the open list.
C26_FirstMinimumSelected ==
    [][(Searching /\ open # <<>> /\ Len(closed') = Len(closed) + 1)
        => closed'[Len(closed')] = open[FirstMinIndex(nodes, open)]]_vars

\* one iteration of the loop of pathfind has expanded a node
Expanded == Searching /\ pc' = pc /\ Len(closed') = Len(closed) + 1

\* C27: when a neighbour that is already in the open list is relaxed from
\* the current node, its g_cost and parent are replaced only if the g_cost
\* of the current node plus the weight of the connection current ->
\* neighbour is strictly less than its g_cost; so the g_cost of a node never
\* increases while the node is in the open list.
C27_StrictRelaxation ==
    [][Expanded
        => LET current == closed'[Len(closed')]
           IN  \A n \in 0..(N - 1) :
                 (Contains(open, n) /\ n # current)
                   => /\ (nodes'[n].g_cost # nodes[n].g_cost
                            \/ nodes'[n].parent # nodes[n].parent)
                         => nodes[current].g_cost
                              + ConnectionWeight(connections, current, n)
                                < nodes[n].g_cost
                      /\ nodes'[n].g_cost <= nodes[n].g_cost]_vars

\* C28: one Pathfinder searched again and again with the same end and
\* different starts: every pathfind(start, end) call that pops end returns
\* a path that begins at that call's start; the backward walk over the
\* parents ends at start and assert_eq!(current, start) does not fail,
\* although g_cost, h_cost and parent of earlier searches are not reset.
C28_RepeatedSearches ==
    [][(pc = "pathfind" /\ open # <<>> /\ Current = end)
        => /\ pc' = "idle"
           /\ best_route' # NoRoute
           /\ best_route'[1] = start
           /\ best_route'[Len(best_route')] = end]_vars

\* C29: the g_cost of a node is None from Pathfinder::new until the node is
\* first reached by the search: up to the end of the first search only
\* nodes that have been placed in the open list (and are now in the open
\* or the closed list) have a g_cost.
C29_GCostNoneUntilReached ==
    (lastCall = "new" /\ pc \in {"idle", "pathfind"})
        => \A n \in 0..(N - 1) :
              nodes[n].g_cost # None => Contains(open, n) \/ Contains(closed, n)

\* C30: throughout a pathfind call every node index occurs at most once in
\* the open list, at most once in the closed list and never in both; a node
\* of the closed list stays there, keeps its g_cost and its parent for the
\* rest of the search and never re-enters the open list.
C30_OpenAndClosed ==
    /\ [](Searching
            => /\ NoDuplicates(open)
               /\ NoDuplicates(closed)
               /\ \A n \in 0..(N - 1) : ~(Contains(open, n) /\ Contains(closed, n)))
    /\ [][Searching
            => \A n \in 0..(N - 1) :
                  Contains(closed, n)
                    => /\ nodes'[n].g_cost = nodes[n].g_cost
                       /\ nodes'[n].parent = nodes[n].parent
                       /\ Contains(closed', n)
                       /\ ~Contains(open', n)]_vars

\* a later search in which a connection leads from a node of the open list
\* back to a node of the closed list
C30_Witness ==
    /\ pc = "pathfind"
    /\ lastCall # "new"
    /\ Len(closed) >= 2
    /\ \E i \in 1..Len(connections) :
          /\ Contains(open, connections[i].start)
          /\ Contains(closed, connections[i].end)
          /\ connections[i].end # start

\* the number of points in which the segment a-b, both endpoints strictly
\* outside the circle, meets the boundary: the roots t in [0, 1] of
\* |a - centre + t (b - a)|^2 = radius^2, counted without a square root
BoundaryCrossings(a, b) ==
    LET d == FVSub(b, a)
        w == FVSub(a, circle.centre)
        qa == FSqrLength(d)
        qb == FMul(F(2), FAdd(FMul(w.x, d.x), FMul(w.y, d.y)))
        qc == FSub(FSqrLength(w), FMul(circle.radius, circle.radius))
        disc == FSub(FMul(qb, qb), FMul(F(4), FMul(qa, qc)))
        vertex == FDiv(FNeg(qb), FMul(F(2), qa))
    IN  IF a = b \/ FLt(disc, F(0)) THEN 0
        ELSE IF ~(FLe(F(0), vertex) /\ FLe(vertex, F(1))) THEN 0
        ELSE IF FEq(disc, F(0)) THEN 1 ELSE 2

\* p is a point of the segment a-b on the boundary of the circle, up to the
\* rounding of the square root
IsCrossing(p, a, b) ==
    /\ FMul(FSub(p.x, a.x), FSub(b.y, a.y)) = FMul(FSub(p.y, a.y), FSub(b.x, a.x))
    /\ FLe(FMin(a.x, b.x), p.x) /\ FLe(p.x, FMax(a.x, b.x))
    /\ FLe(FMin(a.y, b.y), p.y) /\ FLe(p.y, FMax(a.y, b.y))
    /\ FLe(FAbs(FSub(FSqrLength(FVSub(p, circle.centre)),
                      FMul(circle.radius, circle.radius))),
            Frac(1, 10))

\* C21: for a segment whose endpoints are both strictly outside the circle,
\* line_circle_collision returns One(p) when the segment touches the
\* boundary in the single point p and Two of exactly the two crossing
\* points when it crosses the boundary twice, in every orientation,
\* vertical included (and None when it does not meet the boundary).
C21_TangentAndSecant ==
    (collision.called
       /\ ~PointCircleCollision(circle.centre, circle.radius, line.a)
       /\ ~PointCircleCollision(circle.centre, circle.radius, line.b))
        => /\ ~collision.panics
           /\ Len(collision.points) = BoundaryCrossings(line.a, line.b)
           /\ NoDuplicates(collision.points)
           /\ \A i \in 1..Len(collision.points) :
                 IsCrossing(collision.points[i], line.a, line.b)

\* whether the fraction x is a whole number
IsWhole(x) == x.d = 1

\* C23: for all angles theta1 and theta2, r = shortest_angle_distance(theta1,
\* theta2) is the canonical signed difference: r is congruent to theta2 -
\* theta1 modulo 2 PI and -PI < r <= PI, so r is never -PI.
C23_CanonicalDelta ==
    collision.called
        => LET r == collision.forward
           IN  /\ FLt(FNeg(PI), r) /\ FLe(r, PI)
               /\ IsWhole(FDiv(FSub(r, FSub(angles.theta2, angles.theta1)),
                               FMul(F(2), PI)))

\* C24: shortest_angle_distance is antisymmetric: for all angles a and b,
\* shortest_angle_distance(a, b) = -shortest_angle_distance(b, a).
C24_Antisymmetric ==
    collision.called => FEq(collision.forward, FNeg(collision.backward))

\* two angles half a turn apart after several turns: the two calls give
\* -PI and PI
C24_Witness ==
    /\ collision.called
    /\ collision.forward = FNeg(PI)
    /\ collision.backward = PI
    /\ FGt(FSub(angles.theta1, angles.theta2), FMul(F(2), PI))

\* the cross product of two vectors of f32 values
FCross(v, w) == FSub(FMul(v.x, w.y), FMul(v.y, w.x))

\* the position along a-b, as a fraction of it, at which the line through c
\* and d meets the line through a and b
CrossingParam(a, b, c, d) ==
    FDiv(FCross(FVSub(c, a), FVSub(d, c)), FCross(FVSub(b, a), FVSub(d, c)))

\* the segments a1-b1 and a2-b2 have a length, are not parallel and cross
\* at a single point
SingleCrossing(a1, b1, a2, b2) ==
    /\ a1 # b1 /\ a2 # b2
    /\ FCross(FVSub(b1, a1), FVSub(b2, a2)) # F(0)
    /\ FLe(F(0), CrossingParam(a1, b1, a2, b2))
    /\ FLe(CrossingParam(a1, b1, a2, b2), F(1))
    /\ FLe(F(0), CrossingParam(a2, b2, a1, b1))
    /\ FLe(CrossingParam(a2, b2, a1, b1), F(1))

CrossingPoint(a1, b1, a2, b2) ==
    FVAdd(a1, FVMul(FVSub(b1, a1), CrossingParam(a1, b1, a2, b2)))

\* C25: for two non-parallel segments of non-zero length that cross at a
\* single point, line_line_collision(a1, b1, a2, b2) returns that point,
\* also when either segment is vertical or horizontal, and in particular
\* when the second segment a2-b2 is vertical.
C25_CrossingPoint ==
    (collision.called /\ SingleCrossing(line.a, line.b, segment2.a, segment2.b))
        => /\ collision.some
           /\ collision.point = CrossingPoint(line.a, line.b, segment2.a, segment2.b)

\* C22: line_sector_collision never returns more than two points, for any
\* sector and segment, so assert!(collisions.len() <= 2) in
\* SectorRange::line_intersection never fails; this includes the segments
\* through the corner where a wedge edge meets the arc.
C22_AtMostTwoPoints ==
    (collision.called /\ ~collision.panics)
        => Len(collision.points) <= 2 /\ ~collision.asserts

\* C31: in every game state the cached best route of the web is present
\* whenever an update tick or a draw can query it: a recalculate_weights is
\* followed, inside the same release callback, by a pathfind that completes
\* without a panic before any tick, so Web::route() never panics in
\* Round::spawn_enemy.
C31_RoutePresentInPlay ==
    /\ [](pc = "idle" => ~WebRoute.panics)
    /\ [](lastCall = "recalculate_weights" => pc = "pathfind")
    /\ [][(lastCall = "recalculate_weights" /\ lastCall' # lastCall)
             => pc' = "idle" /\ lastCall' = "pathfind"]_vars
    /\ [][enemies' # enemies => pc = "idle" /\ pc' = "idle"]_vars

\* an enemy spawned on the route found after a tower placement moved it
C31_Witness ==
    /\ pc = "idle"
    /\ towers >= 1
    /\ lastCall = "pathfind"
    /\ prevRoute # NoRoute /\ best_route # prevRoute
    /\ enemies # <<>>
    /\ enemies[Len(enemies)].path.points = ToFs(WebRoute.points)

\* a step of the release callback of a tower button
ReleaseStep == released' # released \/ towers' # towers \/ money' # money

CallsOf(i, name) ==
    { k \in 1..Len(event.callbacks) :
        event.callbacks[k].element = i /\ event.callbacks[k].callback = name }

\* C35: the moved and released callbacks of a DragButton are invoked only
\* while a drag is active, that is after an input_start that hit the button
\* with no input_released since; a release during a drag invokes the
\* released callback exactly once and leaves drag_start None, and without a
\* drag no move or release invokes a callback.
C35_CallbacksOnlyWhileDragging ==
    /\ [](\A i \in DOMAIN drag_start : ~event.active[i] => drag_start[i] = NoDrag)
    /\ [][\A i \in Elements :
            TowerMenu.elements[i].kind = "DragButton" =>
                /\ event'.type = "moved" =>
                     Cardinality(CallsOf(i, "moved")') = IF event.active[i] THEN 1 ELSE 0
                /\ event'.type = "released" =>
                     /\ Cardinality(CallsOf(i, "released")') =
                            IF event.active[i] THEN 1 ELSE 0
                     /\ drag_start'[i] = NoDrag
                /\ event'.type # "moved" => CallsOf(i, "moved")' = {}
                /\ event'.type # "released" => CallsOf(i, "released")' = {}]_vars

\* a drag of the first tower button has just been released over the play
\* area while the second button was never pressed
C35_Witness ==
    /\ event.type = "released"
    /\ event.position = <<500, 500>>
    /\ \E k \in CallsOf(1, "released") : event.callbacks[k].start = <<110, 175>>
    /\ CallsOf(2, "released") = {}
    /\ drag_start[1] = NoDrag

\* the enemies of a list that the next movement takes to the end of the route
Arriving(es) ==
    { i \in 1..Len(es) : ~FLt(FAdd(es[i].progress, es[i].progress_increment), F(1)) }

\* C32: every enemy alive after the spawn step of a Round::update is counted
\* once: the count after spawning is lives_lost plus enemies_killed plus the
\* count that remains, lives_lost is the number of enemies whose progress
\* reached 1, enemies_killed the number removed by the towers and their
\* bullets; neither subtraction goes below zero, no step of the update adds
\* an enemy, and the spawn step adds at most one.
C32_EveryEnemyAccounted ==
    /\ [](/\ updated.lives_lost >= 0
          /\ updated.enemies_killed >= 0
          /\ updated.initial_enemies =
                updated.lives_lost + updated.enemies_killed
                    + updated.enemies_after_shooting)
    /\ [][(updated' # updated \/ round' # round) =>
            /\ updated'.spawn \in {0, 1}
            /\ updated'.initial_enemies = Len(round.enemies) + updated'.spawn
            /\ updated'.lives_lost = Cardinality(Arriving(round.enemies))
            /\ updated'.enemies_after_movement <= updated'.initial_enemies
            /\ updated'.enemies_after_shooting <= updated'.enemies_after_movement
            /\ (~updated'.reset /\ ~updated'.next) =>
                  /\ Len(round'.enemies) = updated'.enemies_after_shooting
                  /\ \A i \in 1..Len(round'.enemies) :
                        /\ EnemyAlive(round'.enemies[i])
                        /\ FLt(round'.enemies[i].progress, F(1))]_vars

\* an update spawned an enemy, lost one to the end of the route, had one
\* killed and kept one
C32_Witness ==
    /\ updated.spawn = 1
    /\ updated.lives_lost >= 1
    /\ updated.enemies_killed >= 1
    /\ updated.enemies_after_shooting >= 1
    /\ Len(round.enemies) = updated.enemies_after_shooting

\* the enemies of Round::new(n)
EnemiesOfRound(n) == 7 * n + 10

====
